---- MODULE Spec2Model ----
(***************************************************************************)
(* A model of the ACRA presentation front end.                             *)
(*                                                                         *)
(*  - the API-backed viewer (PptxViewer over project_data): the alert      *)
(*    classifier extractAlertsFromHtml, the table generator                *)
(*    convertProjectDataToSlides, its inverse updateProjectData, the two   *)
(*    edit handlers and exportPptx;                                        *)
(*  - the stand-alone editor (old/PptxViewer.js): parsePptx, its edit      *)
(*    handler and exportPptx.                                              *)
(*                                                                         *)
(* Text is a sequence of tokens.  A token is one character of visible      *)
(* text, or one whole markup tag:                                          *)
(*     "<g>"   <span style="color: green;">                                *)
(*     "<o>"   <span style="color: orange;">                               *)
(*     "<r>"   <span style="color: red; font-weight: bold;">               *)
(*     "<i>"   <span style="font-style: italic;">                          *)
(*     "</s>"  </span>                                                     *)
(*     "nl"    a line terminator                                           *)
(* A tag is atomic: the model does not look inside the characters of a     *)
(* tag (a phrase such as "span" matching the inside of inserted markup).   *)
(***************************************************************************)
EXTENDS Integers, Sequences, FiniteSets, TLC

\* ------------------------------------------------------------------ text

GreenTag == "<g>"
OrangeTag == "<o>"
RedTag == "<r>"
ItalicTag == "<i>"
CloseTag == "</s>"
LineBreak == "nl"

OpenTags == {GreenTag, OrangeTag, RedTag, ItalicTag}

Max2(a, b) == IF a > b THEN a ELSE b

\* All sequences over S of length 0..n.
SeqUpTo(S, n) == UNION {[1..k -> S] : k \in 0..n}

\* String.prototype.indexOf over token sequences: the least 1-based position
\* at which pat occurs in text, 0 when it does not occur.
IndexOf(text, pat) ==
  LET hits == {i \in 1..(Len(text) - Len(pat) + 1) :
                 SubSeq(text, i, i + Len(pat) - 1) = pat}
  IN IF hits = {} THEN 0 ELSE CHOOSE i \in hits : \A j \in hits : i <= j

\* The replacement text of String.prototype.replace when the replacement is a
\* string: "$$" stands for one "$" and "$&" for the matched text; every
\* other character, a lone "$" included, stands for itself (a string pattern
\* has no capture groups).
RECURSIVE GetSubstitution(_, _)
GetSubstitution(repl, matched) ==
  IF Len(repl) < 2 THEN repl
  ELSE IF repl[1] = "$" /\ repl[2] = "$"
    THEN <<"$">> \o GetSubstitution(SubSeq(repl, 3, Len(repl)), matched)
  ELSE IF repl[1] = "$" /\ repl[2] = "&"
    THEN matched \o GetSubstitution(SubSeq(repl, 3, Len(repl)), matched)
  ELSE <<repl[1]>> \o GetSubstitution(Tail(repl), matched)

\* String.prototype.replace(pattern: string, replacement): only the first
\* literal occurrence is replaced; the text is returned as is when the
\* pattern does not occur.
ReplaceFirst(text, pat, repl) ==
  LET i == IndexOf(text, pat)
  IN IF i = 0 THEN text
     ELSE SubSeq(text, 1, i - 1) \o GetSubstitution(repl, pat)
          \o SubSeq(text, i + Len(pat), Len(text))

\* Visible text (innerText): the tokens that are no tag.
RECURSIVE TextOnly(_)
TextOnly(text) ==
  IF text = <<>> THEN <<>>
  ELSE IF Head(text) \in OpenTags \cup {CloseTag} THEN TextOnly(Tail(text))
  ELSE <<Head(text)>> \o TextOnly(Tail(text))

\* ------------------------------------------- extractAlertsFromHtml

\* The end of the regular expression  open (.*?) </span>  anchored at i:
\* the first close tag after i, provided no line terminator lies between
\* ("." does not match one); 0 when the expression does not match at i.
SpanMatchEnd(text, i, open) ==
  IF i > Len(text) \/ text[i] # open THEN 0
  ELSE LET closes == {j \in (i + 1)..Len(text) : text[j] = CloseTag}
       IN IF closes = {} THEN 0
          ELSE LET j == CHOOSE c \in closes : \A d \in closes : c <= d
               IN IF \E k \in (i + 1)..(j - 1) : text[k] = LineBreak THEN 0 ELSE j

\* htmlContent.match(/open(.*?)<\/span>/g) followed by the two replace calls
\* that strip the first open tag and the first close tag of every match:
\* the contents of the matches, left to right, non-overlapping.
RECURSIVE SpanContents(_, _, _)
SpanContents(text, i, open) ==
  IF i > Len(text) THEN <<>>
  ELSE LET j == SpanMatchEnd(text, i, open)
       IN IF j = 0 THEN SpanContents(text, i + 1, open)
          ELSE <<SubSeq(text, i + 1, j - 1)>> \o SpanContents(text, j + 1, open)

EmptyAlerts == [advancements |-> <<>>, small_alerts |-> <<>>, critical_alerts |-> <<>>]

extractAlertsFromHtml(htmlContent) ==
  [advancements |-> SpanContents(htmlContent, 1, GreenTag),
   small_alerts |-> SpanContents(htmlContent, 1, OrangeTag),
   critical_alerts |-> SpanContents(htmlContent, 1, RedTag)]

\* ------------------------------------ convertProjectDataToSlides

\* One forEach of the injection step: every phrase of the list, in list
\* order, has its first literal occurrence wrapped in the tier's markup.
RECURSIVE InjectTier(_, _, _)
InjectTier(text, phrases, open) ==
  IF phrases = <<>> THEN text
  ELSE InjectTier(ReplaceFirst(text, Head(phrases), <<open>> \o Head(phrases) \o <<CloseTag>>),
                  Tail(phrases), open)

\* The three forEach loops: advancements, then small alerts, then critical.
InjectMarkup(information, alerts) ==
  InjectTier(InjectTier(InjectTier(information, alerts.advancements, GreenTag),
                        alerts.small_alerts, OrangeTag),
             alerts.critical_alerts, RedTag)

\* ------------------------------------------------------- project_data

\* The value JavaScript calls undefined, for a text-valued field that was
\* never assigned.
Undefined == <<"undefined">>

\* `text || ''`
OrEmpty(text) == IF text = Undefined THEN <<>> ELSE text

\* project_data.activities is a JavaScript object keyed by project name; its
\* own keys enumerate in insertion order.  It is modelled as the sequence of
\* its entries [name, information, alerts] in that order, names distinct.
Names(activities) == {activities[i].name : i \in 1..Len(activities)}

HasKey(activities, name) == name \in Names(activities)

KeyIndex(activities, name) == CHOOSE i \in 1..Len(activities) : activities[i].name = name

\* activities[name]
Lookup(activities, name) == activities[KeyIndex(activities, name)]

\* delete activities[name]
DeleteKey(activities, name) ==
  IF ~HasKey(activities, name) THEN activities
  ELSE LET k == KeyIndex(activities, name)
       IN SubSeq(activities, 1, k - 1) \o SubSeq(activities, k + 1, Len(activities))

\* activities[name] = {information, alerts}: an existing key keeps its place,
\* a new key is appended.
AssignKey(activities, name, information, alerts) ==
  LET entry == [name |-> name, information |-> information, alerts |-> alerts]
  IN IF HasKey(activities, name)
     THEN [activities EXCEPT ![KeyIndex(activities, name)] = entry]
     ELSE Append(activities, entry)

\* ------------------------------------ convertProjectDataToSlides (table)

Cell(text, html, rowSpan, colSpan, style) ==
  [text |-> text, html |-> html, rowSpan |-> rowSpan, colSpan |-> colSpan, style |-> style]

NoStyle == [bold |-> FALSE, italic |-> FALSE, underline |-> FALSE, bgColor |-> ""]

HeaderStyle == [bold |-> TRUE, italic |-> FALSE, underline |-> FALSE, bgColor |-> "F0F0F0"]

NameStyle == [bold |-> TRUE, italic |-> FALSE, underline |-> FALSE, bgColor |-> ""]

EventsStyle == [bold |-> FALSE, italic |-> FALSE, underline |-> FALSE, bgColor |-> "F5F5F5"]

DefaultTitle == <<"Presentation sans titre">>

HeaderRow ==
  <<Cell(<<"Projet">>, FALSE, 1, 1, HeaderStyle),
    Cell(<<"Information">>, FALSE, 1, 1, HeaderStyle),
    Cell(<<"Evenements a venir">>, FALSE, 1, 1, HeaderStyle)>>

\* The row of the index-th project (0-based, as in the forEach callback).
ProjectRow(projectData, index) ==
  LET entry == projectData.activities[index + 1]
      base == <<Cell(entry.name, FALSE, 1, 1, NameStyle),
                Cell(InjectMarkup(entry.information, entry.alerts), TRUE, 1, 1, NoStyle)>>
  IN IF index = 0
     THEN Append(base, Cell(OrEmpty(projectData.upcoming_events), FALSE,
                            Len(projectData.activities), 1, EventsStyle))
     ELSE base

ProjectTable(projectData) ==
  [rows |-> <<HeaderRow>> \o
            [i \in 1..Len(projectData.activities) |-> ProjectRow(projectData, i - 1)],
   hasHeader |-> TRUE,
   headerStyle |-> HeaderStyle,
   colsCount |-> 3,
   colWidths |-> <<150, 450, 250>>]

SlideTitleOf(projectData) ==
  IF projectData.metadata.title = <<>> \/ projectData.metadata.title = Undefined
  THEN DefaultTitle ELSE projectData.metadata.title

TextItem(content, isTitle) == [type |-> "text", content |-> content, isTitle |-> isTitle]

TableItem(table) ==
  [type |-> "table",
   content |-> [r \in 1..Len(table.rows) |->
                  [c \in 1..Len(table.rows[r]) |-> table.rows[r][c].text]],
   tableObject |-> table]

\* The slide list the viewer derives from project_data on every render and in
\* every handler: one slide, whose table exists when there are activities.
convertProjectDataToSlides(projectData) ==
  LET hasTable == Len(projectData.activities) > 0
      table == ProjectTable(projectData)
  IN <<[id |-> "slide-1",
        title |-> SlideTitleOf(projectData),
        content |-> <<>>,
        structuredContent |->
          <<TextItem(SlideTitleOf(projectData), TRUE)>> \o
          (IF hasTable THEN <<TableItem(table)>> ELSE <<>>),
        tables |-> IF hasTable THEN <<table>> ELSE <<>>,
        images |-> <<>>]>>

\* ------------------------------------------------- updateProjectData

\* The loop over the data rows of the first table: rows with fewer than two
\* cells or an empty name are skipped, the others assign activities[name].
RECURSIVE ActivitiesOfRows(_, _, _)
ActivitiesOfRows(rows, i, acc) ==
  IF i > Len(rows) THEN acc
  ELSE LET row == rows[i]
       IN IF Len(row) < 2 \/ row[1].text = <<>>
          THEN ActivitiesOfRows(rows, i + 1, acc)
          ELSE ActivitiesOfRows(rows, i + 1,
                 AssignKey(acc, row[1].text, row[2].text,
                           extractAlertsFromHtml(row[2].text)))

updateProjectData(slides, originalData) ==
  IF Len(slides) = 0 THEN originalData
  ELSE LET mainSlide == slides[1]
           hasTable == Len(mainSlide.tables) > 0
           rows == IF hasTable THEN mainSlide.tables[1].rows ELSE <<>>
       IN [activities |-> ActivitiesOfRows(rows, 2, <<>>),
           metadata |-> originalData.metadata,
           upcoming_events |->
             IF Len(rows) > 1 /\ Len(rows[2]) >= 3 THEN rows[2][3].text ELSE Undefined]

\* ------------------------------------------------ edit events (viewer)

\* parseInt of a missing or non-numeric data- attribute.
NaN == -999

IsNaN(n) == n = NaN

\* array[i] with a JavaScript (0-based) index is defined for 0 <= i < length.
Defined(array, i) == i >= 0 /\ i < Len(array)

At(array, i) == array[i + 1]

\* An edit event: the data- attributes of the target element and its content
\* (innerText for the blur handler, innerHTML for the formatting update).
EditEvent(slideIndex, elementType, elementIndex, rowIndex, cellIndex, content) ==
  [slideIndex |-> slideIndex, elementType |-> elementType, elementIndex |-> elementIndex,
   rowIndex |-> rowIndex, cellIndex |-> cellIndex, content |-> content]

\* A variant of the existence test that stops at the row: it accepts any
\* cell index on an existing row.
CellExistsRowOnly(slide, ev) ==
  /\ ~IsNaN(ev.elementIndex)
  /\ Defined(slide.structuredContent, ev.elementIndex)
  /\ At(slide.structuredContent, ev.elementIndex).type = "table"
  /\ Defined(At(slide.structuredContent, ev.elementIndex).tableObject.rows, ev.rowIndex)

\* slide.structuredContent[elementIndex] exists and carries a tableObject
\* whose rows[rowIndex][cellIndex] exists.
CellExists(slide, ev) ==
  /\ ~IsNaN(ev.elementIndex)
  /\ Defined(slide.structuredContent, ev.elementIndex)
  /\ At(slide.structuredContent, ev.elementIndex).type = "table"
  /\ Defined(At(slide.structuredContent, ev.elementIndex).tableObject.rows, ev.rowIndex)
  /\ Defined(At(At(slide.structuredContent, ev.elementIndex).tableObject.rows, ev.rowIndex),
             ev.cellIndex)

\* The text of cell 0 of the addressed row, read from the table object.
RowName(slide, ev) ==
  At(At(slide.structuredContent, ev.elementIndex).tableObject.rows, ev.rowIndex)[1].text

\* A variant that does not mirror the title into metadata.
WithTitleKept(projectData, title) == projectData

WithTitle(projectData, title) ==
  [projectData EXCEPT !.metadata = [title |-> title]]

\* ------------------------------- handleStructuredContentEdit (viewer)

\* The table branch once the cell exists.  The cell text has already been
\* overwritten with the new content when the project name is read back from
\* it, so originalProjectName is the new content.
BlurCellEdit(projectData, slide, ev) ==
  LET activities == projectData.activities IN
  CASE ev.rowIndex = 0 -> projectData
    [] ev.rowIndex # 0 /\ ev.cellIndex = 0 ->
         LET originalProjectName == ev.content
         IN IF HasKey(activities, originalProjectName)
            THEN LET projectInfo == Lookup(activities, originalProjectName)
                 IN [projectData EXCEPT !.activities =
                       AssignKey(DeleteKey(activities, originalProjectName), ev.content,
                                 projectInfo.information, projectInfo.alerts)]
            ELSE projectData
    [] ev.rowIndex # 0 /\ ev.cellIndex = 1 ->
         LET projectName == RowName(slide, ev)
         IN IF HasKey(activities, projectName)
            THEN [projectData EXCEPT !.activities =
                    AssignKey(activities, projectName, ev.content, EmptyAlerts)]
            ELSE projectData
    [] ev.rowIndex # 0 /\ ev.cellIndex = 2 ->
         [projectData EXCEPT !.upcoming_events = ev.content]
    [] OTHER -> projectData

\* The handler on one presentation: the outcome and the project_data it
\* leaves.  "returned": an early return, no state update; "threw": a
\* TypeError on the undefined slide, no state update; "updated":
\* setPresentations was called.
BlurEdit(projectData, ev) ==
  LET slides == convertProjectDataToSlides(projectData)
      slide == At(slides, ev.slideIndex)
  IN
  IF IsNaN(ev.slideIndex) \/ ev.elementType = ""
  THEN [outcome |-> "returned", data |-> projectData]
  ELSE IF ~Defined(slides, ev.slideIndex)
  THEN \* slide is undefined: slide.title throws, and so does
       \* slide.structuredContent unless isNaN(elementIndex) cut the test short
       IF \/ ev.elementType = "title"
          \/ ev.elementType \in {"text", "table"} /\ ~IsNaN(ev.elementIndex)
       THEN [outcome |-> "threw", data |-> projectData]
       ELSE [outcome |-> "updated", data |-> projectData]
  ELSE CASE ev.elementType = "title" ->
              [outcome |-> "updated",
               data |-> IF ev.slideIndex = 0 THEN WithTitle(projectData, ev.content)
                        ELSE projectData]
         [] ev.elementType = "table" /\ CellExists(slide, ev) ->
              [outcome |-> "updated", data |-> BlurCellEdit(projectData, slide, ev)]
         [] OTHER -> [outcome |-> "updated", data |-> projectData]

\* ------------------------------------ updateFormattedContent (viewer)

FormatCellEdit(projectData, slide, ev) ==
  LET activities == projectData.activities IN
  IF ev.rowIndex > 0 /\ ev.cellIndex = 1
  THEN LET projectName == RowName(slide, ev)
       IN IF HasKey(activities, projectName)
          THEN [projectData EXCEPT !.activities =
                  AssignKey(activities, projectName, ev.content,
                            extractAlertsFromHtml(ev.content))]
          ELSE projectData
  ELSE IF ev.cellIndex = 2
  THEN [projectData EXCEPT !.upcoming_events = ev.content]
  ELSE projectData

FormatEdit(projectData, ev) ==
  LET slides == convertProjectDataToSlides(projectData)
      slide == At(slides, ev.slideIndex)
      tableArgs == /\ ev.elementType = "table" /\ ~IsNaN(ev.slideIndex)
                   /\ ~IsNaN(ev.elementIndex) /\ ~IsNaN(ev.rowIndex) /\ ~IsNaN(ev.cellIndex)
      branch == IF tableArgs THEN "table"
                ELSE IF ev.elementType \in {"text", "title"} THEN ev.elementType
                ELSE "none"
  IN
  IF branch = "none" THEN [outcome |-> "returned", data |-> projectData]
  ELSE IF ~Defined(slides, ev.slideIndex) THEN [outcome |-> "threw", data |-> projectData]
  ELSE CASE branch = "table" ->
              IF CellExists(slide, ev)
              THEN [outcome |-> "updated", data |-> FormatCellEdit(projectData, slide, ev)]
              ELSE [outcome |-> "returned", data |-> projectData]
         [] branch = "text" ->
              IF Defined(slide.structuredContent, ev.elementIndex)
                 /\ ev.slideIndex = 0 /\ ev.elementIndex = 0
              THEN [outcome |-> "updated", data |-> WithTitle(projectData, ev.content)]
              ELSE [outcome |-> "returned", data |-> projectData]
         [] branch = "title" ->
              IF ev.slideIndex = 0
              THEN [outcome |-> "updated", data |-> WithTitle(projectData, ev.content)]
              ELSE [outcome |-> "returned", data |-> projectData]

\* ================================================== stand-alone editor
\* ------------------------------------------------------- slide XML
(***************************************************************************)
(* parsePptx reads the slide XML with regular expressions.  A slide part   *)
(* is modelled by what those expressions can see:                          *)
(*   name      the name attribute of <p:cSld> (<<>> when absent)           *)
(*   elements  the children of the shape tree in document order, each a    *)
(*             shape  [kind |-> "sp", ph, runs]  where ph is the           *)
(*               placeholder of the shape ("title": <p:ph type="title">,   *)
(*               "idx0": <p:ph idx="0">, "none") and runs the contents of  *)
(*               its <a:t> elements, or a                                  *)
(*             table  [kind |-> "tbl", gridCols, tcPr, rows]  with rows a  *)
(*               sequence of rows, a row a sequence of source cells.       *)
(* A source cell is [tag, gridSpan, rowSpan, bold, text]: tag is "plain"   *)
(* for a cell written <a:tc> and "attrs" for a cell whose start tag        *)
(* carries attributes (<a:tc gridSpan="2">, <a:tc rowSpan="2">, ...);      *)
(* gridSpan / rowSpan are the values written in the cell (0: none), on the *)
(* start tag for an "attrs" cell and inside the cell for a "plain" one.    *)
(* Text is a sequence of characters.                                       *)
(***************************************************************************)

Space == " "

\* text.trim() is empty
IsBlank(text) == \A i \in 1..Len(text) : text[i] \in {Space, LineBreak}

\* text.replace(/pat/g, repl) for a literal pattern: every occurrence, left
\* to right, non-overlapping.
RECURSIVE ReplaceAll(_, _, _)
ReplaceAll(text, pat, repl) ==
  LET i == IndexOf(text, pat)
  IN IF i = 0 THEN text
     ELSE SubSeq(text, 1, i - 1) \o repl \o
          ReplaceAll(SubSeq(text, i + Len(pat), Len(text)), pat, repl)

\* The five chained replace calls applied to every extracted run.
DecodeEntities(text) ==
  ReplaceAll(ReplaceAll(ReplaceAll(ReplaceAll(ReplaceAll(text,
    <<"&", "l", "t", ";">>, <<"<">>),
    <<"&", "g", "t", ";">>, <<">">>),
    <<"&", "a", "m", "p", ";">>, <<"&">>),
    <<"&", "q", "u", "o", "t", ";">>, <<"\"">>),
    <<"&", "a", "p", "o", "s", ";">>, <<"'">>)

\* array.join(sep) of a sequence of texts
RECURSIVE Join(_, _)
Join(texts, sep) ==
  IF texts = <<>> THEN <<>>
  ELSE IF Len(texts) = 1 THEN texts[1]
  ELSE texts[1] \o sep \o Join(Tail(texts), sep)

RECURSIVE Flatten(_)
Flatten(seqs) == IF seqs = <<>> THEN <<>> ELSE Head(seqs) \o Flatten(Tail(seqs))

\* The <a:t> contents of a table, in document order: every cell, whatever
\* its start tag.
TableRuns(tbl) ==
  Flatten([r \in 1..Len(tbl.rows) |->
             [c \in 1..Len(tbl.rows[r]) |-> tbl.rows[r][c].text]])

ElementRuns(el) == IF el.kind = "sp" THEN el.runs ELSE TableRuns(el)

\* Every <a:t> content of the slide in document order, each with the
\* placeholder marks that precede it: seenTitle / seenIdx0 tell whether a
\* <p:ph type="title"> / <p:ph idx="0"> tag occurs before the run.
RECURSIVE RunsFrom(_, _, _, _)
RunsFrom(elements, k, seenTitle, seenIdx0) ==
  IF k > Len(elements) THEN <<>>
  ELSE LET el == elements[k]
           t == seenTitle \/ (el.kind = "sp" /\ el.ph = "title")
           z == seenIdx0 \/ (el.kind = "sp" /\ el.ph = "idx0")
           runs == ElementRuns(el)
       IN [n \in 1..Len(runs) |-> [text |-> runs[n], afterTitle |-> t, afterIdx0 |-> z]]
          \o RunsFrom(elements, k + 1, t, z)

SlideRuns(xml) == RunsFrom(xml.elements, 1, FALSE, FALSE)

\* Group 1 of  <a:t>(.*?)</a:t>  at the first run it can match among
\* candidates: "." does not cross a line terminator, so a run holding one is
\* passed over.  Undefined when nothing matches.
FirstRunText(runs, candidates) ==
  LET ok == {n \in candidates : \A i \in 1..Len(runs[n].text) : runs[n].text[i] # LineBreak}
  IN IF ok = {} THEN Undefined
     ELSE runs[CHOOSE n \in ok : \A m \in ok : n <= m].text

\* `match && match[1]`
Truthy(text) == text # Undefined /\ text # <<>>

\* `Slide ${slideId}`
SlideNumberText(slideId) == <<"S", "l", "i", "d", "e", " ", ToString(slideId)>>

\* The title of a slide part (lines 128-161).
ResolveTitle(xml, slideId) ==
  LET runs == SlideRuns(xml)
      all == 1..Len(runs)
      titleFromCsld == xml.name
      titlePlaceholder == FirstRunText(runs, {n \in all : runs[n].afterTitle})
      titleIdx == FirstRunText(runs, {n \in all : runs[n].afterIdx0})
      firstText == FirstRunText(runs, all)
      fromPlaceholders ==
        IF titleFromCsld # <<>> THEN titleFromCsld
        ELSE IF Truthy(titlePlaceholder) THEN titlePlaceholder
        ELSE IF Truthy(titleIdx) THEN titleIdx
        ELSE <<>>
  IN IF fromPlaceholders # <<>> THEN fromPlaceholders
     ELSE IF Truthy(firstText) /\ ~IsBlank(firstText) THEN firstText
     ELSE SlideNumberText(slideId)

\* shape.includes(title): the title occurs in the text of the shape.
ShapeIncludes(shape, title) ==
  \E n \in 1..Len(shape.runs) : IndexOf(shape.runs[n], title) > 0

\* The text items of the shapes (lines 166-197): a placeholder shape of type
\* title or index 0 that includes the title is skipped; any other shape with
\* runs whose joined decoded text is not blank yields one text item.
RECURSIVE ShapeTextItems(_, _, _)
ShapeTextItems(elements, k, title) ==
  IF k > Len(elements) THEN <<>>
  ELSE LET el == elements[k]
           rest == ShapeTextItems(elements, k + 1, title)
       IN IF el.kind # "sp" THEN rest
          ELSE LET isTitleShape == el.ph \in {"title", "idx0"}
                   shapeText == Join([n \in 1..Len(el.runs) |-> DecodeEntities(el.runs[n])],
                                     <<LineBreak>>)
               IN IF isTitleShape /\ title # <<>> /\ ShapeIncludes(el, title) THEN rest
                  ELSE IF Len(el.runs) > 0 /\ ~IsBlank(shapeText)
                  THEN <<[type |-> "text", content |-> shapeText]>> \o rest
                  ELSE rest

\* ------------------------------------------------- tables (lines 210-352)

SourceCell(tag, gridSpan, rowSpan, bold, fill, text) ==
  [tag |-> tag, gridSpan |-> gridSpan, rowSpan |-> rowSpan, bold |-> bold,
   fill |-> fill, text |-> text]

ParsedCell(text, rowSpan, colSpan, colIndex, style) ==
  [text |-> text, rowSpan |-> rowSpan, colSpan |-> colSpan, colIndex |-> colIndex,
   style |-> style]

RECURSIVE SumSeq(_)
SumSeq(ns) == IF ns = <<>> THEN 0 ELSE Head(ns) + SumSeq(Tail(ns))

\* rowMatch.match(/<a:tc/g).length: every cell start tag, and every <a:tcPr
\* (the expression has no closing bracket), when the cells carry one.
CellsCount(tbl, row) == IF tbl.tcPr THEN 2 * Len(row) ELSE Len(row)

\* cellsCount plus (gridSpan - 1) for every gridSpan="..." written in the row.
EffectiveColCount(tbl, row) ==
  CellsCount(tbl, row) +
  SumSeq([c \in 1..Len(row) |-> IF row[c].gridSpan = 0 THEN 0 ELSE row[c].gridSpan - 1])

RECURSIVE MaxOver(_)
MaxOver(ns) == IF ns = <<>> THEN 0 ELSE Max2(Head(ns), MaxOver(Tail(ns)))

MaxColsInTable(tbl) ==
  MaxOver([r \in 1..Len(tbl.rows) |-> EffectiveColCount(tbl, tbl.rows[r])])

\* colsCount || maxColsInTable
TotalColsCount(tbl) == IF Len(tbl.grid) # 0 THEN Len(tbl.grid) ELSE MaxColsInTable(tbl)

\* rowMatch.match(/<a:tc>[\s\S]*?<\/a:tc>/g): only the cells whose start tag
\* is exactly <a:tc>; a cell whose start tag carries attributes is not matched.
CellsMatch(row) == SelectSeq(row, LAMBDA cell : cell.tag = "plain")

CellStyle(cell) ==
  [bold |-> cell.bold, italic |-> FALSE, underline |-> FALSE, bgColor |-> cell.fill]

\* The for loop over cellsMatch: the parsed cells with the running column
\* index, which advances by colSpan.
RECURSIVE DeclaredCells(_, _, _)
DeclaredCells(cellsMatch, i, currentColIndex) ==
  IF i > Len(cellsMatch) THEN <<>>
  ELSE LET cellMatch == cellsMatch[i]
           rowSpan == IF cellMatch.rowSpan # 0 THEN cellMatch.rowSpan ELSE 1
           colSpan == IF cellMatch.gridSpan # 0 THEN cellMatch.gridSpan ELSE 1
       IN <<ParsedCell(DecodeEntities(cellMatch.text), rowSpan, colSpan, currentColIndex,
                       CellStyle(cellMatch))>>
          \o DeclaredCells(cellsMatch, i + 1, currentColIndex + colSpan)

\* The while loop that fills in missing cells up to totalColsCount.
PaddingCells(currentColIndex, totalColsCount) ==
  [k \in 1..(totalColsCount - currentColIndex) |->
     ParsedCell(<<>>, 1, 1, currentColIndex + k - 1, NoStyle)]

ParseRow(row, totalColsCount) ==
  LET declared == DeclaredCells(CellsMatch(row), 1, 0)
      currentColIndex == SumSeq([i \in 1..Len(declared) |-> declared[i].colSpan])
  IN declared \o PaddingCells(currentColIndex, totalColsCount)

\* The header test on row 0: bold text or a solid fill anywhere in the row.
RowBold(row) == \E c \in 1..Len(row) : row[c].bold

RowFill(row) ==
  LET filled == {c \in 1..Len(row) : row[c].fill # ""}
  IN IF filled = {} THEN "" ELSE row[CHOOSE c \in filled : \A d \in filled : c <= d].fill

ParseTable(tbl) ==
  LET totalColsCount == TotalColsCount(tbl)
      hasHeader == Len(tbl.rows) > 0 /\ (RowBold(tbl.rows[1]) \/ RowFill(tbl.rows[1]) # "")
  IN [rows |-> [r \in 1..Len(tbl.rows) |-> ParseRow(tbl.rows[r], totalColsCount)],
      hasHeader |-> hasHeader,
      headerStyle |-> IF hasHeader
                      THEN [bold |-> RowBold(tbl.rows[1]), bgColor |-> RowFill(tbl.rows[1])]
                      ELSE [bold |-> FALSE, bgColor |-> ""],
      colsCount |-> totalColsCount,
      colWidths |-> tbl.grid]

\* tableMatches.forEach: one table, and one table item, per <a:tbl> element.
ParseTables(xml) ==
  LET tbls == SelectSeq(xml.elements, LAMBDA el : el.kind = "tbl")
  IN [k \in 1..Len(tbls) |-> ParseTable(tbls[k])]

\* ------------------------------------------------- images (lines 354-417)

\* An image relationship of a slide is [up, name]: its Target is "../name"
\* when up and "name" otherwise.  The path of the image in the package.
ImagePath(target) ==
  IF target.up THEN [dir |-> "ppt", name |-> target.name]
  ELSE [dir |-> "ppt/slides", name |-> target.name]

\* URL.createObjectURL returns a new URL on every call: the URL made by load
\* number load for image index of the slide with the given id.
ObjectURL(load, slide, index) == [load |-> load, slide |-> slide, index |-> index]

\* No URL: the image file is not in the package.
NoUrl == ObjectURL(0, 0, 0)

\* slide.images after the loop of lines 393-417: an image whose file is in
\* the package gets a URL of its own.
SlideImages(file, part, load) ==
  [i \in 1..Len(part.rels) |->
     LET imagePath == ImagePath(part.rels[i])
     IN [path |-> imagePath,
         url |-> IF imagePath \in file.media THEN ObjectURL(load, part.num, i) ELSE NoUrl]]

\* The image items of structuredContent: every item with the path of an
\* image takes the URL of that image, so the last image of that path wins.
ImageItems(images) ==
  [j \in 1..Len(images) |->
     LET same == {i \in 1..Len(images) :
                    images[i].path = images[j].path /\ images[i].url # NoUrl}
     IN [type |-> "image",
         path |-> images[j].path,
         url |-> IF same = {} THEN NoUrl
                 ELSE images[CHOOSE i \in same : \A m \in same : m <= i].url]]

\* The URLs a slide list holds.
SlideURLs(slideList) ==
  UNION {{slideList[k].images[i].url : i \in 1..Len(slideList[k].images)} :
           k \in 1..Len(slideList)} \ {NoUrl}

\* ------------------------------------------------------------ parsePptx

ParseSlide(file, part, load) ==
  LET title == ResolveTitle(part.xml, part.num)
      tables == ParseTables(part.xml)
      runs == SlideRuns(part.xml)
      allTexts == [n \in 1..Len(runs) |-> DecodeEntities(runs[n].text)]
      images == SlideImages(file, part, load)
  IN [id |-> part.num,
      title |-> title,
      structuredContent |-> ShapeTextItems(part.xml.elements, 1, title) \o
                            [k \in 1..Len(tables) |-> TableItem(tables[k])] \o
                            ImageItems(images),
      texts |-> allTexts,
      content |-> Join(allTexts, <<LineBreak>>),
      tables |-> tables,
      images |-> images]

ClickToAdd == <<"Click to add content">>

\* The slide list returned for an empty package and from the catch block.
DefaultSlides ==
  <<[id |-> 1,
     title |-> <<"New Presentation">>,
     structuredContent |-> <<[type |-> "text", content |-> ClickToAdd]>>,
     texts |-> <<ClickToAdd>>,
     content |-> ClickToAdd,
     tables |-> <<>>,
     images |-> <<>>]>>

\* The slide entries left in the order of the archive.
SortByEntryOrder(parts) == parts

\* slideEntries.sort((a, b) => numA - numB), a stable sort.
RECURSIVE SortByNum(_)
SortByNum(parts) ==
  IF parts = <<>> THEN <<>>
  ELSE LET rest == SortByNum(Tail(parts))
           before == SelectSeq(rest, LAMBDA q : q.num < Head(parts).num)
           after == SelectSeq(rest, LAMBDA q : q.num >= Head(parts).num)
       IN before \o <<Head(parts)>> \o after

\* The whole body runs in one try block: when the archive cannot be opened
\* (loadAsync rejects) or the text of a slide part cannot be read (async
\* rejects inside the loop), the catch block returns the default slide list.
parsePptx(file, load) ==
  IF file.corrupt \/ (\E k \in 1..Len(file.parts) : file.parts[k].fails) THEN DefaultSlides
  ELSE LET slideEntries == SortByNum(file.parts)
           parsedSlides == [k \in 1..Len(slideEntries) |->
                              ParseSlide(file, slideEntries[k], load)]
       IN IF Len(parsedSlides) > 0 THEN parsedSlides ELSE DefaultSlides

\* ----------------------------- handleStructuredContentEdit (editor)

\* The number of table items among structuredContent[0..elementIndex]: the
\* table object of the item at elementIndex is the same object as
\* slide.tables[that number - 1], both hold the one tableRows array.
TableOrdinal(slide, elementIndex) ==
  Cardinality({k \in 1..(elementIndex + 1) : slide.structuredContent[k].type = "table"})

SetCellText(table, rowIndex, cellIndex, text) ==
  [table EXCEPT !.rows[rowIndex + 1][cellIndex + 1].text = text]

\* The text branch's  filter(type === 'text').map(content).join('\n\n').
TextContent(slide) ==
  LET items == SelectSeq(slide.structuredContent, LAMBDA item : item.type = "text")
  IN Join([k \in 1..Len(items) |-> items[k].content], <<LineBreak, LineBreak>>)

\* The slide after a title, text or table edit whose target exists.
EditedSlide(slide, ev, isSelected) ==
  CASE ev.elementType = "title" -> [slide EXCEPT !.title = ev.content]
    [] ev.elementType = "text" ->
         LET s1 == [slide EXCEPT !.structuredContent[ev.elementIndex + 1].content = ev.content]
         IN IF isSelected THEN [s1 EXCEPT !.content = TextContent(s1)] ELSE s1
    [] ev.elementType = "table" ->
         LET k == TableOrdinal(slide, ev.elementIndex)
             item == At(slide.structuredContent, ev.elementIndex)
             table == SetCellText(item.tableObject, ev.rowIndex, ev.cellIndex, ev.content)
         IN [slide EXCEPT
               !.structuredContent[ev.elementIndex + 1] =
                  [item EXCEPT !.tableObject = table,
                               !.content[ev.rowIndex + 1][ev.cellIndex + 1] = ev.content],
               !.tables[k] = table]

\* The editor's blur handler on the slide list.  A text event is taken to
\* address a text item or nothing (the preview emits it for text items only).
EditorEdit(slideList, selected, ev) ==
  LET slide == At(slideList, ev.slideIndex)
      targetExists ==
        CASE ev.elementType = "title" -> TRUE
          [] ev.elementType = "text" ->
               ~IsNaN(ev.elementIndex) /\ Defined(slide.structuredContent, ev.elementIndex)
          [] ev.elementType = "table" -> CellExists(slide, ev)
          [] OTHER -> FALSE
  IN
  IF IsNaN(ev.slideIndex) \/ ev.elementType = ""
  THEN [outcome |-> "returned", slides |-> slideList]
  ELSE IF ~Defined(slideList, ev.slideIndex)
  THEN IF \/ ev.elementType = "title"
          \/ ev.elementType \in {"text", "table"} /\ ~IsNaN(ev.elementIndex)
       THEN [outcome |-> "threw", slides |-> slideList]
       ELSE [outcome |-> "updated", slides |-> slideList]
  ELSE IF targetExists
  THEN [outcome |-> "updated",
        slides |-> [slideList EXCEPT ![ev.slideIndex + 1] =
                      EditedSlide(slide, ev, ev.slideIndex = selected)]]
  ELSE [outcome |-> "updated", slides |-> slideList]

\* --------------------------------------------------------- exportPptx

\* What an export hands to the pptxgenjs writer: per slide the title text
\* box, the body text box and the tables, each table a matrix of cells
\* [text, rowSpan, colSpan] (a cell passed as a bare string spans 1 x 1).
ExportedCell(text) == [text |-> text, rowSpan |-> 1, colSpan |-> 1]

NoExport == [status |-> "none", slides |-> <<>>]

\* The editor (lines 975-1025): table.forEach is called on the table object,
\* which is no array, so a slide with a table makes the export throw before
\* writeFile; the catch block reports the failure.
EditorExport(slideList) ==
  IF \E k \in 1..Len(slideList) : Len(slideList[k].tables) > 0
  THEN [status |-> "failed", slides |-> <<>>]
  ELSE [status |-> "written",
        slides |-> [k \in 1..Len(slideList) |->
                      [title |-> slideList[k].title,
                       texts |-> IF Len(slideList[k].texts) > 0
                                 THEN <<slideList[k].content>> ELSE <<>>,
                       tables |-> <<>>]]]

\* The viewer (lines 1089-1147): every cell is reduced to its text.
ViewerExport(projectData) ==
  LET slideList == convertProjectDataToSlides(projectData)
  IN [status |-> "written",
      slides |-> [k \in 1..Len(slideList) |->
                    [title |-> slideList[k].title,
                     texts |-> IF slideList[k].content # <<>>
                               THEN <<slideList[k].content>> ELSE <<>>,
                     tables |-> [t \in 1..Len(slideList[k].tables) |->
                                   [r \in 1..Len(slideList[k].tables[t].rows) |->
                                      [c \in 1..Len(slideList[k].tables[t].rows[r]) |->
                                         ExportedCell(slideList[k].tables[t].rows[r][c].text)]]]]]]

\* ============================================================== state

VARIABLES
  app,               \* the mounted component: "viewer", "editor", "App" or "functions"
  presentations,     \* viewer: the presentations state, each [filename, project_data]
  currentPresIndex,  \* viewer: index (0-based) of the presentation shown
  pending,           \* viewer: the timers set by formatSelectedText, oldest first
  requests,          \* viewer: the number of fetchPresentations requests in flight
  file,              \* editor: the package offered to onDrop
  slides,            \* editor: the slides state
  selectedSlide,     \* editor: index (0-based) of the slide shown
  objectURLs,        \* editor: the object URLs created and not revoked
  loadOutcome,       \* editor: how the last onDrop ended: "none", "installed", "alerted"
  lastEdit,          \* the last edit handler run: [handler, ev, outcome]
  exported,          \* the last exportPptx run: [status, slides]
  call,              \* functions: the last function applied, [fn, arg, result]
  openPresentations, \* App: the openPresentations state, each [id]
  activePresentation,\* App: the activePresentation state, an id or Null
  updates            \* App: the state updates queued since the last render

vars == <<app, presentations, currentPresIndex, pending, requests, file, slides,
          selectedSlide, objectURLs, loadOutcome, lastEdit, exported, call,
          openPresentations, activePresentation, updates>>

appVars == <<openPresentations, activePresentation, updates>>

\* null
Null == 0

\* App before any presentation is opened.
AppMounted ==
  /\ openPresentations = <<>>
  /\ activePresentation = Null
  /\ updates = <<>>

viewerVars == <<presentations, currentPresIndex, pending>>

editorVars == <<file, slides, selectedSlide, objectURLs, loadOutcome>>

NoEdit == [handler |-> "none", ev |-> EditEvent(NaN, "", NaN, NaN, NaN, <<>>),
           outcome |-> "none"]

NoCall == [fn |-> "none"]

\* A dropped file: unreadable when the FileReader fails, corrupt when its
\* bytes are no zip archive; parts are the slide parts in the order of the
\* archive's entries, media the image files of the archive.
NoFile == [unreadable |-> FALSE, corrupt |-> FALSE, parts |-> <<>>, media |-> {}]

\* ------------------------------------------------------------- bounds

\* Coordinates of edit events range over 0..MaxIndex and NaN.
MaxIndex == 3

\* Shapes per slide, cells per row, rows per table, grid columns per table.
MaxShapes == 2

MaxCells == 2

MaxRows == 2

MaxGridCols == 3

\* Length of the plain texts offered to the injection, and number of
\* phrases of an AlertSet.
MaxTextLen == 3

MaxPhrases == 2

\* Slide parts per package, image relationships per slide, and loads that
\* create object URLs.
MaxParts == 3

MaxImages == 2

MaxLoads == 2

\* --------------------------------------------------- viewer: inputs

ProjectA == [name |-> <<"A">>, information |-> <<"a", "b">>,
             alerts |-> [EmptyAlerts EXCEPT !.advancements = <<<<"a">>>>]]

ProjectB == [name |-> <<"B">>, information |-> <<"b">>, alerts |-> EmptyAlerts]

\* The project_data payloads the API answers with.
FetchedData ==
  {[activities |-> acts, upcoming_events |-> <<"e">>, metadata |-> [title |-> <<"T">>]] :
     acts \in {<<>>, <<ProjectA, ProjectB>>}}
  \cup {[activities |-> <<ProjectA>>, upcoming_events |-> <<"e">>, metadata |-> [title |-> <<>>]]}

\* innerText of an element that was edited: a text that is no project name,
\* for a name cell also the name of another project, and for an information
\* cell also a text in which the markup of a green span was typed out.
BlurContent == <<"C">>

TypedMarkup == <<GreenTag, "a", CloseTag>>

BlurContents(rowIndex, cellIndex) ==
  IF rowIndex >= 1 /\ cellIndex = 0 THEN {BlurContent, ProjectB.name}
  ELSE IF rowIndex = 1 /\ cellIndex = 1 THEN {BlurContent, TypedMarkup}
  ELSE {BlurContent}

\* innerText of a title whose text was deleted.
ClearedTitle == EditEvent(0, "title", NaN, NaN, NaN, <<>>)

\* innerHTML of an element after the red format was applied to part of it.
FormatContent == <<"c", RedTag, "a", CloseTag>>

Coordinates == 0..MaxIndex

\* The coordinates an edit handler is run with.  A title element carries a
\* slide index only, a text element an element index too, a table cell all
\* four; the preview shows one slide, whose items are a text and a table.
TitleTargets ==
  {EditEvent(si, "title", NaN, NaN, NaN, <<>>) : si \in {NaN, 0, 1}}
  \cup {EditEvent(0, "", NaN, NaN, NaN, <<>>)}

TextTargets ==
  {EditEvent(0, "text", ei, NaN, NaN, <<>>) : ei \in {NaN, 0, 2}}
  \cup {EditEvent(1, "text", 0, NaN, NaN, <<>>)}

\* The cells addressed in the table of slide 0: the cells of its three rows
\* and three columns, and beyond them the cells of row 1, of column 2 and
\* of the diagonal.
CellTargets ==
  {EditEvent(0, "table", 1, rc[1], rc[2], <<>>) :
     rc \in {p \in Coordinates \X Coordinates :
               (p[1] <= 2 /\ p[2] <= 2) \/ p[1] = 1 \/ p[2] = 2 \/ p[1] = p[2]}}
  \cup {EditEvent(0, "table", ei, 1, 1, <<>>) : ei \in {NaN, 0, 2}}
  \cup {EditEvent(1, "table", ei, 1, 1, <<>>) : ei \in {NaN, 1}}
  \cup {EditEvent(0, "table", 1, NaN, 1, <<>>), EditEvent(0, "table", 1, 1, NaN, <<>>)}

Targets == TitleTargets \cup TextTargets \cup CellTargets

BlurEvents ==
  UNION {{[t EXCEPT !.content = c] : c \in BlurContents(t.rowIndex, t.cellIndex)} : t \in Targets}
  \cup {ClearedTitle}

FormatEvents == {[t EXCEPT !.content = FormatContent] : t \in Targets}

CurrentDefined == Defined(presentations, currentPresIndex)

CurrentData == At(presentations, currentPresIndex).project_data

\* -------------------------------------------------- viewer: actions

\* fetchPresentations: a non-empty answer installs the list and resets the
\* index; an empty answer or a failed request empties the list.
FetchPresentations ==
  /\ app = "viewer"
  /\ \/ \E data \in FetchedData :
          /\ presentations' = <<[filename |-> "p.pptx", project_data |-> data]>>
          /\ currentPresIndex' = 0
     \/ /\ presentations' = <<>>
        /\ UNCHANGED currentPresIndex
  /\ lastEdit' = NoEdit
  /\ exported' = NoExport
  /\ UNCHANGED <<app, appVars, requests, pending, editorVars, call>>

\* The blur listener.
handleStructuredContentEdit ==
  /\ app = "viewer"
  /\ exported' = NoExport
  /\ \E ev \in BlurEvents :
       IF IsNaN(ev.slideIndex) \/ ev.elementType = "" \/ ~CurrentDefined
       THEN /\ lastEdit' = [handler |-> "blur", ev |-> ev, outcome |-> "returned"]
            /\ UNCHANGED presentations
       ELSE LET r == BlurEdit(CurrentData, ev)
            IN /\ lastEdit' = [handler |-> "blur", ev |-> ev, outcome |-> r.outcome]
               /\ presentations' =
                    [presentations EXCEPT ![currentPresIndex + 1].project_data = r.data]
  /\ UNCHANGED <<app, appVars, requests, currentPresIndex, pending, editorVars, call>>

\* The update run after a formatting action.
updateFormattedContent ==
  /\ app = "viewer"
  /\ exported' = NoExport
  /\ \E ev \in FormatEvents :
       IF ~CurrentDefined
       THEN /\ lastEdit' = [handler |-> "format", ev |-> ev, outcome |-> "returned"]
            /\ UNCHANGED presentations
       ELSE LET r == FormatEdit(CurrentData, ev)
            IN /\ lastEdit' = [handler |-> "format", ev |-> ev, outcome |-> r.outcome]
               /\ presentations' =
                    [presentations EXCEPT ![currentPresIndex + 1].project_data = r.data]
  /\ UNCHANGED <<app, appVars, requests, currentPresIndex, pending, editorVars, call>>

\* exportPptx of the viewer.
exportPptxViewer ==
  /\ app = "viewer"
  /\ CurrentDefined
  /\ exported' = ViewerExport(CurrentData)
  /\ lastEdit' = NoEdit
  /\ UNCHANGED <<app, appVars, requests, viewerVars, editorVars, call>>

\* --------------------------------------------------- editor: inputs

Shape(ph, runs) == [kind |-> "sp", ph |-> ph, runs |-> runs]

Table(grid, tcPr, rows) == [kind |-> "tbl", grid |-> grid, tcPr |-> tcPr, rows |-> rows]

SlideXml(name, elements) == [name |-> name, elements |-> elements]

\* A slide part ppt/slides/slide<num>.xml: its XML, whether reading it
\* fails, and the image relationships of its .rels part.
Part(num, xml, fails, rels) == [num |-> num, xml |-> xml, fails |-> fails, rels |-> rels]

Package(xmls) ==
  [NoFile EXCEPT !.parts = [k \in 1..Len(xmls) |-> Part(k, xmls[k], FALSE, <<>>)]]

\* <a:tblGrid> with n columns, each written <a:gridCol w="100"/>.
Grid(n) == [k \in 1..n |-> 100]

PlainCell(text) == SourceCell("plain", 0, 0, FALSE, "", text)

\* The packages opened in the editor before editing: a body shape followed
\* by a table of two columns, with one or two rows.
EditorFiles ==
  {Package(<<SlideXml(<<>>, <<Shape("none", <<<<"X">>>>),
                              Table(Grid(2), FALSE,
                                    [r \in 1..n |-> <<PlainCell(<<"p">>), PlainCell(<<"q">>)>>])>>)>>)
     : n \in {2}}

\* -------------------------------------------------- editor: actions

\* The number of the next load: one more than the loads that left a URL.
NextLoad == 1 + Cardinality({url.load : url \in objectURLs})

\* onDrop: the dropzone is rendered while there are no slides.  When the
\* file cannot be read the catch block alerts and nothing is installed;
\* otherwise whatever parsePptx returns is installed.
onDrop ==
  /\ app = "editor"
  /\ slides = <<>>
  /\ NextLoad <= MaxLoads
  /\ IF file.unreadable
     THEN /\ loadOutcome' = "alerted"
          /\ UNCHANGED <<slides, selectedSlide, objectURLs>>
     ELSE /\ slides' = parsePptx(file, NextLoad)
          /\ selectedSlide' = 0
          /\ objectURLs' = objectURLs \cup SlideURLs(slides')
          /\ loadOutcome' = "installed"
  /\ lastEdit' = NoEdit
  /\ exported' = NoExport
  /\ UNCHANGED <<app, appVars, requests, viewerVars, file, call>>

\* The blur listener of the editor, attached once slides are shown.
handleStructuredContentEditEditor ==
  /\ app = "editor"
  /\ slides # <<>>
  /\ \E ev \in BlurEvents :
       LET r == EditorEdit(slides, selectedSlide, ev)
       IN /\ lastEdit' = [handler |-> "editor", ev |-> ev, outcome |-> r.outcome]
          /\ slides' = r.slides
  /\ exported' = NoExport
  /\ UNCHANGED <<app, appVars, requests, viewerVars, file, selectedSlide, objectURLs, loadOutcome, call>>

\* exportPptx of the editor.
exportPptxEditor ==
  /\ app = "editor"
  /\ slides # <<>>
  /\ exported' = EditorExport(slides)
  /\ lastEdit' = NoEdit
  /\ UNCHANGED <<app, appVars, requests, viewerVars, editorVars, call>>

\* The button "Charger un autre fichier": setSlides([]) and nothing else.
loadAnotherFile ==
  /\ app = "editor"
  /\ slides # <<>>
  /\ slides' = <<>>
  /\ loadOutcome' = "none"
  /\ lastEdit' = NoEdit
  /\ exported' = NoExport
  /\ UNCHANGED <<app, appVars, requests, viewerVars, file, selectedSlide, objectURLs, call>>

\* ------------------------------------------- specification: editing

\* Either component is mounted: the viewer before its first fetch, or the
\* editor before a package is dropped.
Init ==
  /\ app \in {"viewer", "editor"}
  /\ presentations = <<>>
  /\ currentPresIndex = 0
  /\ pending = <<>>
  /\ requests = 0
  /\ file \in (IF app = "editor" THEN EditorFiles ELSE {NoFile})
  /\ slides = <<>>
  /\ selectedSlide = 0
  /\ objectURLs = {}
  /\ loadOutcome = "none"
  /\ lastEdit = NoEdit
  /\ exported = NoExport
  /\ call = NoCall
  /\ AppMounted

Next ==
  \/ FetchPresentations
  \/ handleStructuredContentEdit
  \/ updateFormattedContent
  \/ exportPptxViewer
  \/ onDrop
  \/ handleStructuredContentEditEditor
  \/ exportPptxEditor
  \/ loadAnotherFile

Spec == Init /\ [][Next]_vars

\* ------------------------------------------- specification: parsing

\* The <a:t> contents a shape is written with: none, one empty run, one
\* run, an empty run before a run, one blank run.
ShapeRuns(text) == {<<>>, <<<<>>>>, <<text>>, <<<<>>, text>>, <<<<Space>>>>}

\* The text of the k-th shape of a slide and of the c-th cell of a row.
ShapeLetters == <<"X", "Y", "Z">>

CellLetters == <<"p", "q", "r">>

Shapes(k) ==
  {Shape(ph, runs) : ph \in {"title", "idx0", "none"}, runs \in ShapeRuns(<<ShapeLetters[k]>>)}

\* The ways a cell is written: <a:tc>, <a:tc gridSpan="2">, <a:tc rowSpan="2">,
\* and <a:tc> with bold text on a solid fill.
CellVariants(text) ==
  {PlainCell(text),
   SourceCell("attrs", 2, 0, FALSE, "", text),
   SourceCell("attrs", 0, 2, FALSE, "", text),
   SourceCell("plain", 0, 0, TRUE, "F0F0F0", text)}

SourceRows ==
  UNION {{row \in [1..n -> UNION {CellVariants(<<CellLetters[c]>>) : c \in 1..n}] :
            \A c \in 1..n : row[c] \in CellVariants(<<CellLetters[c]>>)} : n \in 0..MaxCells}

\* Rows after the first are written with <a:tc> cells only.
PlainRows == {[c \in 1..n |-> PlainCell(<<CellLetters[c]>>)] : n \in 0..MaxCells}

TableRows ==
  {<<>>} \cup {<<first>> \o rest : first \in SourceRows, rest \in SeqUpTo(PlainRows, MaxRows - 1)}

SourceTables ==
  {Table(Grid(g), tcPr, rows) : g \in 0..MaxGridCols, tcPr \in BOOLEAN, rows \in TableRows}

\* Slides of shapes only, with or without a name on <p:cSld>.
TitleSlides ==
  UNION {{SlideXml(name, els) :
            name \in {<<>>, <<"N">>},
            els \in {e \in [1..n -> UNION {Shapes(k) : k \in 1..n}] :
                       \A k \in 1..n : e[k] \in Shapes(k)}} : n \in 0..MaxShapes}

\* Slides of one table.
TableSlides == {SlideXml(<<>>, <<tbl>>) : tbl \in SourceTables}

\* The packages dropped on the editor: an archive that cannot be read, an
\* archive without slide parts, and archives of one slide.
\* A slide with one body shape.
BodySlide == SlideXml(<<>>, <<Shape("none", <<<<"X">>>>)>>)

\* Archives of several slide parts, none or one of which cannot be read:
\* the numeric suffixes are 1, 2, ... and 10, and the archive lists the
\* parts in any order.
DeckFiles ==
  LET partNums == (1..(MaxParts - 1)) \cup {10}
      orders == {o \in SeqUpTo(partNums, MaxParts) :
                   o # <<>> /\ \A i, j \in 1..Len(o) : i # j => o[i] # o[j]}
  IN UNION {{[NoFile EXCEPT !.parts =
                  [k \in 1..Len(o) |-> Part(o[k], BodySlide, k = bad, <<>>)]] :
               bad \in 0..Len(o)} : o \in orders}

\* Archives of one slide with image relationships (Target="../media/a.png"
\* and Target="b.png"), each image file present in the archive or not.
ImageFiles ==
  LET targets == {[up |-> TRUE, name |-> "media/a.png"], [up |-> FALSE, name |-> "b.png"]}
  IN {[NoFile EXCEPT !.parts = <<Part(1, BodySlide, FALSE, rels)>>, !.media = media] :
        rels \in SeqUpTo(targets, MaxImages) \ {<<>>},
        media \in SUBSET {ImagePath(t) : t \in targets}}

\* Archives of one slide, named or not, whose only element is a body shape,
\* a title placeholder or a one-cell table, with a text written with
\* entities: "&lt;", "&amp;lt;" and "&amp;quot;".
EntityFiles ==
  LET texts == {<<"&", "l", "t", ";">>,
                <<"&", "a", "m", "p", ";", "l", "t", ";">>,
                <<"&", "a", "m", "p", ";", "q", "u", "o", "t", ";">>}
  IN {Package(<<SlideXml(name, <<el>>)>>) :
        name \in {<<>>, <<"N">>},
        el \in UNION {{Shape("none", <<t>>), Shape("title", <<t>>),
                       Table(Grid(1), FALSE, <<<<PlainCell(t)>>>>)} : t \in texts}}

\* The files dropped on the editor: a file that cannot be read, an archive
\* that cannot be opened, an archive without slide parts, archives of one
\* slide, of several slides, of a slide with images, and of a slide with
\* entities.
ParseFiles ==
  {[NoFile EXCEPT !.unreadable = TRUE], [NoFile EXCEPT !.corrupt = TRUE], NoFile}
  \cup {Package(<<xml>>) : xml \in TitleSlides \cup TableSlides}
  \cup DeckFiles
  \cup ImageFiles
  \cup EntityFiles

InitParse ==
  /\ app = "editor"
  /\ presentations = <<>>
  /\ currentPresIndex = 0
  /\ pending = <<>>
  /\ requests = 0
  /\ file \in ParseFiles
  /\ slides = <<>>
  /\ selectedSlide = 0
  /\ objectURLs = {}
  /\ loadOutcome = "none"
  /\ lastEdit = NoEdit
  /\ exported = NoExport
  /\ call = NoCall
  /\ AppMounted

NextParse ==
  \/ onDrop
  \/ exportPptxEditor
  \/ loadAnotherFile

SpecParse == InitParse /\ [][NextParse]_vars

\* ----------------------------------------- specification: functions

\* Length of an innerHTML offered to the classifier, in tokens.
MaxHtmlLen == 5

Letters == {"a", "b"}

\* Plain texts and the phrases quoted from them.
PlainTexts == SeqUpTo(Letters, MaxTextLen)

Phrases == SeqUpTo(Letters, 2) \ {<<>>}

Tiers == {"advancements", "small_alerts", "critical_alerts"}

\* The phrases of one tier among the tagged phrases, in their order.
RECURSIVE TierOf(_, _)
TierOf(tagged, tier) ==
  IF tagged = <<>> THEN <<>>
  ELSE IF Head(tagged).tier = tier THEN <<Head(tagged).phrase>> \o TierOf(Tail(tagged), tier)
  ELSE TierOf(Tail(tagged), tier)

\* AlertSets of at most MaxPhrases phrases in all.
AlertSets ==
  {[advancements |-> TierOf(tagged, "advancements"),
    small_alerts |-> TierOf(tagged, "small_alerts"),
    critical_alerts |-> TierOf(tagged, "critical_alerts")] :
     tagged \in SeqUpTo([tier : Tiers, phrase : Phrases], MaxPhrases)}

AlertPhrases(alerts) ==
  {alerts.advancements[i] : i \in 1..Len(alerts.advancements)}
  \cup {alerts.small_alerts[i] : i \in 1..Len(alerts.small_alerts)}
  \cup {alerts.critical_alerts[i] : i \in 1..Len(alerts.critical_alerts)}

\* A text with an AlertSet whose phrases all occur in it verbatim.
InjectionInputs ==
  {[kind |-> "injection", text |-> t, alerts |-> A] : t \in PlainTexts, A \in AlertSets}

QuotedInputs == {in \in InjectionInputs : \A ph \in AlertPhrases(in.alerts) : IndexOf(in.text, ph) > 0}

\* A text with any AlertSet, quoted from it or not, and a text that holds
\* the replacement pattern "$$" with that phrase in its AlertSet.
MarkingInputs ==
  {[kind |-> "marking", text |-> t, alerts |-> A] : t \in PlainTexts, A \in AlertSets}
  \cup {[kind |-> "marking", text |-> <<"a", "$", "$">>,
         alerts |-> [EmptyAlerts EXCEPT ![tier] = <<<<"$", "$">>>>]] : tier \in Tiers}

\* The nesting depth after each token, -1 once a close tag has no open tag.
RECURSIVE Depth(_, _)
Depth(text, n) ==
  IF n = 0 THEN 0
  ELSE LET d == Depth(text, n - 1)
       IN IF d < 0 THEN -1
          ELSE IF text[n] \in OpenTags THEN d + 1
          ELSE IF text[n] = CloseTag THEN d - 1
          ELSE d

\* The serialisation of a DOM subtree: every span is closed, in order.
Serialised(text) == Depth(text, Len(text)) = 0

HtmlTokens == OpenTags \cup {CloseTag, LineBreak, "a"}

HtmlInputs ==
  {[kind |-> "html", html |-> h] : h \in {t \in SeqUpTo(HtmlTokens, MaxHtmlLen) : Serialised(t)}}

\* project_data payloads: the first project with or without information
\* and alerts, alone or followed by a second project.
RoundTripProjects ==
  {[name |-> <<"A">>, information |-> info, alerts |-> A] :
     info \in {<<>>, <<"a", "b">>},
     A \in {EmptyAlerts,
            [EmptyAlerts EXCEPT !.advancements = <<<<"a">>>>],
            [EmptyAlerts EXCEPT !.critical_alerts = <<<<"c">>>>]}}

PayloadInputs ==
  {[kind |-> "payload",
    data |-> [activities |-> acts, upcoming_events |-> ev, metadata |-> [title |-> title]]] :
     acts \in {<<>>} \cup {<<p>> : p \in RoundTripProjects}
                     \cup {<<p, ProjectB>> : p \in RoundTripProjects},
     ev \in {<<>>, <<"e">>},
     title \in {<<>>, <<"T">>}}

InitPure ==
  /\ app = "functions"
  /\ presentations = <<>>
  /\ currentPresIndex = 0
  /\ pending = <<>>
  /\ requests = 0
  /\ file = NoFile
  /\ slides = <<>>
  /\ selectedSlide = 0
  /\ objectURLs = {}
  /\ loadOutcome = "none"
  /\ lastEdit = NoEdit
  /\ exported = NoExport
  /\ call \in {[fn |-> "input", arg |-> in] : in \in QuotedInputs \cup HtmlInputs \cup PayloadInputs
                                                     \cup MarkingInputs}
  /\ AppMounted

\* The injection step of convertProjectDataToSlides, then the classifier.
ClassifyInjected ==
  /\ call.fn = "input" /\ call.arg.kind = "injection"
  /\ call' = [fn |-> "classifyInjected", arg |-> call.arg,
              result |-> extractAlertsFromHtml(InjectMarkup(call.arg.text, call.arg.alerts))]
  /\ UNCHANGED <<app, appVars, requests, viewerVars, editorVars, lastEdit, exported>>

\* The injection step of convertProjectDataToSlides alone: the text of the
\* information cell of one project row.
Inject ==
  /\ call.fn = "input" /\ call.arg.kind = "marking"
  /\ call' = [fn |-> "injectMarkup", arg |-> call.arg,
              result |-> InjectMarkup(call.arg.text, call.arg.alerts)]
  /\ UNCHANGED <<app, appVars, requests, viewerVars, editorVars, lastEdit, exported>>

Classify ==
  /\ call.fn = "input" /\ call.arg.kind = "html"
  /\ call' = [fn |-> "extractAlertsFromHtml", arg |-> call.arg,
              result |-> extractAlertsFromHtml(call.arg.html)]
  /\ UNCHANGED <<app, appVars, requests, viewerVars, editorVars, lastEdit, exported>>

\* convertProjectDataToSlides, then updateProjectData on its result.
RoundTrip ==
  /\ call.fn = "input" /\ call.arg.kind = "payload"
  /\ call' = [fn |-> "roundTrip", arg |-> call.arg,
              result |-> updateProjectData(convertProjectDataToSlides(call.arg.data),
                                           call.arg.data)]
  /\ UNCHANGED <<app, appVars, requests, viewerVars, editorVars, lastEdit, exported>>

NextPure ==
  \/ ClassifyInjected
  \/ Inject
  \/ Classify
  \/ RoundTrip

SpecPure == InitPure /\ [][NextPure]_vars

\* ------------------------------------- specification: deferred update

\* Timers that formatSelectedText has set and that have not fired.
MaxTimers == 2

\* The project_data a stale callback reads.  Both handlers copy project_data
\* with a spread, which copies the reference to activities, and they assign
\* to and delete from that one activities object in place: the activities
\* seen through the presentations of an earlier render are those of the
\* present state, while upcoming_events and metadata are those of the
\* earlier render.
SeenThrough(captured, current) == [captured EXCEPT !.activities = current.activities]

\* The presentations a callback closes over: of each project_data the fields
\* the render's own objects hold; activities is a reference to the shared
\* object, read through SeenThrough when the callback runs.
Captured(list) ==
  [k \in 1..Len(list) |-> [list[k] EXCEPT !.project_data.activities = <<>>]]

\* element.innerText of a rendered table cell: its text without the markup.
VisibleText(rowIndex, cellIndex) ==
  LET table == At(At(convertProjectDataToSlides(CurrentData), 0).structuredContent, 1)
  IN TextOnly(At(At(table.tableObject.rows, rowIndex), cellIndex).text)

\* formatSelectedText on a selection inside an editable element of the
\* preview: the DOM of the element is rewritten at once, and a timer is
\* set that will call updateFormattedContent.  The callback is the one of
\* the render in which the action ran, so it holds the presentations and
\* currentPresIndex of that render; the content is read from the element.
formatSelectedText ==
  /\ app = "viewer"
  /\ CurrentDefined
  /\ Len(pending) < MaxTimers
  /\ \E ev \in {EditEvent(0, "table", 1, 1, 1, FormatContent),
                 EditEvent(0, "table", 1, 1, 2, FormatContent)} :
       pending' = Append(pending, [ev |-> ev, presentations |-> Captured(presentations),
                                   currentPresIndex |-> currentPresIndex])
  /\ lastEdit' = NoEdit
  /\ exported' = NoExport
  /\ UNCHANGED <<app, appVars, requests, presentations, currentPresIndex, editorVars, call>>

\* The timer fires, 50 ms later: updateFormattedContent runs on the
\* presentations it holds, and setPresentations installs what it built.
formatTimerFires ==
  /\ app = "viewer"
  /\ pending # <<>>
  /\ LET timer == Head(pending)
         seen == SeenThrough(At(timer.presentations, timer.currentPresIndex).project_data,
                             At(presentations, timer.currentPresIndex).project_data)
         r == FormatEdit(seen, timer.ev)
     IN /\ lastEdit' = [handler |-> "format", ev |-> timer.ev, outcome |-> r.outcome]
        /\ presentations' =
             IF r.outcome = "updated"
             THEN [k \in 1..Len(timer.presentations) |->
                     IF k = timer.currentPresIndex + 1
                     THEN [timer.presentations[k] EXCEPT !.project_data = r.data]
                     ELSE [timer.presentations[k] EXCEPT !.project_data =
                             SeenThrough(@, presentations[k].project_data)]]
             ELSE presentations
  /\ pending' = Tail(pending)
  /\ exported' = NoExport
  /\ UNCHANGED <<app, appVars, requests, currentPresIndex, editorVars, call>>

\* The blur listener, run on an edit of the title or of the information
\* cell of the second project, or on the information cell or the name cell
\* of the first project left as it is shown.
blurEdit ==
  /\ app = "viewer"
  /\ CurrentDefined
  /\ \E ev \in {EditEvent(0, "title", NaN, NaN, NaN, BlurContent),
                 EditEvent(0, "table", 1, 2, 1, BlurContent),
                 EditEvent(0, "table", 1, 1, 1, VisibleText(1, 1)),
                 EditEvent(0, "table", 1, 1, 0, VisibleText(1, 0))} :
       LET r == BlurEdit(CurrentData, ev)
       IN /\ lastEdit' = [handler |-> "blur", ev |-> ev, outcome |-> r.outcome]
          /\ presentations' =
               [presentations EXCEPT ![currentPresIndex + 1].project_data = r.data]
  /\ exported' = NoExport
  /\ UNCHANGED <<app, appVars, requests, currentPresIndex, pending, editorVars, call>>

\* The viewer once a presentation of two projects has been fetched.
InitTimer ==
  /\ app = "viewer"
  /\ presentations \in {<<[filename |-> "p.pptx", project_data |-> data]>> :
                          data \in {d \in FetchedData : Len(d.activities) = 2}}
  /\ currentPresIndex = 0
  /\ pending = <<>>
  /\ requests = 0
  /\ file = NoFile
  /\ slides = <<>>
  /\ selectedSlide = 0
  /\ objectURLs = {}
  /\ loadOutcome = "none"
  /\ lastEdit = NoEdit
  /\ exported = NoExport
  /\ call = NoCall
  /\ AppMounted

NextTimer ==
  \/ formatSelectedText
  \/ formatTimerFires
  \/ blurEdit
  \/ exportPptxViewer

SpecTimer == InitTimer /\ [][NextTimer]_vars

\* ------------------------------------ specification: the slide list

\* Slides in the list of the editor.
MaxSlides == 3

\* The slide object of createNewPresentation and addSlide: it has no
\* structuredContent, which the preview and the blur listener treat as an
\* empty one.
NewSlide(n, title) ==
  [id |-> n,
   title |-> title,
   structuredContent |-> <<>>,
   texts |-> <<ClickToAdd>>,
   content |-> ClickToAdd,
   tables |-> <<>>,
   images |-> <<>>]

createNewPresentation ==
  /\ app = "editor"
  /\ slides = <<>>
  /\ slides' = <<NewSlide(1, <<"New Presentation">>)>>
  /\ selectedSlide' = 0
  /\ loadOutcome' = "created"
  /\ lastEdit' = NoEdit
  /\ exported' = NoExport
  /\ UNCHANGED <<app, appVars, requests, viewerVars, file, objectURLs, call>>

addSlide ==
  /\ app = "editor"
  /\ slides # <<>>
  /\ Len(slides) < MaxSlides
  /\ slides' = Append(slides, NewSlide(Len(slides) + 1, <<"New Slide">>))
  /\ selectedSlide' = Len(slides') - 1
  /\ lastEdit' = NoEdit
  /\ exported' = NoExport
  /\ UNCHANGED <<app, appVars, requests, viewerVars, file, objectURLs, loadOutcome, call>>

\* deleteSlide: the only slide is kept (an alert is shown); otherwise the
\* selected slide is filtered out.
deleteSlide ==
  /\ app = "editor"
  /\ slides # <<>>
  /\ IF Len(slides) <= 1
     THEN UNCHANGED <<slides, selectedSlide>>
     ELSE /\ slides' = SubSeq(slides, 1, selectedSlide)
                       \o SubSeq(slides, selectedSlide + 2, Len(slides))
          /\ selectedSlide' = IF selectedSlide < Len(slides') - 1 THEN selectedSlide
                              ELSE Len(slides') - 1
  /\ lastEdit' = NoEdit
  /\ exported' = NoExport
  /\ UNCHANGED <<app, appVars, requests, viewerVars, file, objectURLs, loadOutcome, call>>

\* A click on a thumbnail.
selectSlide ==
  /\ app = "editor"
  /\ \E index \in 0..(Len(slides) - 1) :
       /\ index # selectedSlide
       /\ selectedSlide' = index
  /\ lastEdit' = NoEdit
  /\ exported' = NoExport
  /\ UNCHANGED <<app, appVars, requests, viewerVars, file, slides, objectURLs, loadOutcome, call>>

\* The data- attributes generateEditableSlidePreview writes on the cells of
\* the table items of a slide: data-cell-index is cell.colIndex || 0.
RenderedCells(slide, slideIndex) ==
  {EditEvent(slideIndex, "table", itemIndex - 1, rowIndex - 1,
             slide.structuredContent[itemIndex].tableObject.rows[rowIndex][c].colIndex, <<>>) :
     <<itemIndex, rowIndex, c>> \in
       {t \in (1..Len(slide.structuredContent)) \X (1..MaxRows) \X (1..(MaxGridCols + 1)) :
          /\ slide.structuredContent[t[1]].type = "table"
          /\ t[2] <= Len(slide.structuredContent[t[1]].tableObject.rows)
          /\ t[3] <= Len(slide.structuredContent[t[1]].tableObject.rows[t[2]])}}

\* A blur event on a cell of the structured preview, which shows the
\* selected slide.
blurRenderedCell ==
  /\ app = "editor"
  /\ slides # <<>>
  /\ Defined(slides, selectedSlide)
  /\ \E cell \in RenderedCells(At(slides, selectedSlide), selectedSlide) :
       LET ev == [cell EXCEPT !.content = BlurContent]
           r == EditorEdit(slides, selectedSlide, ev)
       IN /\ lastEdit' = [handler |-> "editor", ev |-> ev, outcome |-> r.outcome]
          /\ slides' = r.slides
  /\ exported' = NoExport
  /\ UNCHANGED <<app, appVars, requests, viewerVars, file, selectedSlide, objectURLs, loadOutcome, call>>

\* A cell <a:tc> whose text is  gridSpan="2" : the cell is matched, and the
\* search for gridSpan="..." in the match finds its text.
SpanTextCell == SourceCell("plain", 2, 0, FALSE, "", <<"gridSpan=\"2\"">>)

\* The packages dropped on the editor: no slide part, one or two slides of
\* a body shape, and a slide of one table whose first row starts with a
\* cell of two columns.
ListFiles ==
  {NoFile, Package(<<BodySlide>>), Package(<<BodySlide, BodySlide>>)}
  \cup {Package(<<SlideXml(<<>>, <<Table(Grid(g), FALSE,
                                         <<<<SpanTextCell, PlainCell(<<"q">>), PlainCell(<<"r">>)>>,
                                           <<PlainCell(<<"p">>), PlainCell(<<"q">>)>>>>)>>)>>)
          : g \in {0, MaxGridCols}}

InitList ==
  /\ app = "editor"
  /\ presentations = <<>>
  /\ currentPresIndex = 0
  /\ pending = <<>>
  /\ requests = 0
  /\ file \in ListFiles
  /\ slides = <<>>
  /\ selectedSlide = 0
  /\ objectURLs = {}
  /\ loadOutcome = "none"
  /\ lastEdit = NoEdit
  /\ exported = NoExport
  /\ call = NoCall
  /\ AppMounted

NextList ==
  \/ onDrop
  \/ createNewPresentation
  \/ addSlide
  \/ deleteSlide
  \/ selectSlide
  \/ blurRenderedCell
  \/ loadAnotherFile

SpecList == InitList /\ [][NextList]_vars

\* ---------------------------------- specification: open presentations

\* The ids of the presentations offered for opening.
MaxOpen == 2

\* State updates queued between two renders.
MaxUpdates == 4

PresentationIds == 1..MaxOpen

\* A queued update of one of the two states: a value
\* (setOpenPresentations(list), setActivePresentation(id)) or the updater
\* prevPresentations => [...prevPresentations, presentation].
SetOpen(list) == [hook |-> "openPresentations", kind |-> "value", value |-> list]

AppendOpen(presentation) ==
  [hook |-> "openPresentations", kind |-> "updater", value |-> <<presentation>>]

SetActive(id) == [hook |-> "activePresentation", kind |-> "value", value |-> id]

IsOpen(list, id) == \E k \in 1..Len(list) : list[k].id = id

\* A render: the queued updates of a state are applied to it in the order
\* they were queued.
RECURSIVE Reduce(_, _, _)
Reduce(state, queue, hook) ==
  IF queue = <<>> THEN state
  ELSE IF Head(queue).hook # hook THEN Reduce(state, Tail(queue), hook)
  ELSE IF Head(queue).kind = "updater"
    THEN Reduce(state \o Head(queue).value, Tail(queue), hook)
  ELSE Reduce(Head(queue).value, Tail(queue), hook)

\* The handlers are closures of the last render: openPresentations and
\* activePresentation are the values of that render until the next one.
Queue(newUpdates) ==
  /\ Len(updates) + Len(newUpdates) <= MaxUpdates
  /\ updates' = updates \o newUpdates
  /\ UNCHANGED <<app, openPresentations, activePresentation, viewerVars, requests,
                 editorVars, lastEdit, exported, call>>

\* The listener of the 'open-presentation' event.
handleOpenPresentation ==
  /\ app = "App"
  /\ \E id \in PresentationIds :
       IF IsOpen(openPresentations, id)
       THEN Queue(<<SetActive(id)>>)
       ELSE Queue(<<AppendOpen([id |-> id]), SetActive(id)>>)

\* openPresentation(file), called by FileList.
openPresentation ==
  /\ app = "App"
  /\ \E id \in PresentationIds :
       IF ~IsOpen(openPresentations, id)
       THEN Queue(<<SetOpen(openPresentations \o <<[id |-> id]>>), SetActive(id)>>)
       ELSE Queue(<<SetActive(id)>>)

\* closePresentation(id), on a presentation that is shown as open.
closePresentation ==
  /\ app = "App"
  /\ \E id \in PresentationIds :
       /\ IsOpen(openPresentations, id)
       /\ LET newOpenPresentations == SelectSeq(openPresentations, LAMBDA p : p.id # id)
          IN Queue(<<SetOpen(newOpenPresentations)>> \o
                   (IF activePresentation = id /\ Len(newOpenPresentations) > 0
                    THEN <<SetActive(newOpenPresentations[Len(newOpenPresentations)].id)>>
                    ELSE IF Len(newOpenPresentations) = 0 THEN <<SetActive(Null)>>
                    ELSE <<>>))

\* The component renders again: the queued updates become the state, and
\* the effect subscribes a listener of the new render.
render ==
  /\ app = "App"
  /\ updates # <<>>
  /\ openPresentations' = Reduce(openPresentations, updates, "openPresentations")
  /\ activePresentation' = Reduce(activePresentation, updates, "activePresentation")
  /\ updates' = <<>>
  /\ UNCHANGED <<app, viewerVars, requests, editorVars, lastEdit, exported, call>>

InitApp ==
  /\ app = "App"
  /\ presentations = <<>>
  /\ currentPresIndex = 0
  /\ pending = <<>>
  /\ requests = 0
  /\ file = NoFile
  /\ slides = <<>>
  /\ selectedSlide = 0
  /\ objectURLs = {}
  /\ loadOutcome = "none"
  /\ lastEdit = NoEdit
  /\ exported = NoExport
  /\ call = NoCall
  /\ AppMounted

NextApp ==
  \/ handleOpenPresentation
  \/ openPresentation
  \/ closePresentation
  \/ render

SpecApp == InitApp /\ [][NextApp]_vars

\* ------------------------------------ specification: navigation

\* Presentations in the answer of the API.
MaxPresentations == 3

\* fetchPresentations calls awaiting their answer.
MaxRequests == 2

\* response.data.presentations of a successful, non-empty answer.
FolderLists ==
  UNION {[1..n -> {[filename |-> "p.pptx", project_data |-> data] : data \in FetchedData}] :
           n \in 1..MaxPresentations}

\* A load that left the index where it was.
LoadedIndexKept(index) == index

\* setCurrentPresIndex(0) after a non-empty answer, whatever the index was.
LoadedIndex(index) == 0

\* The record of a load or navigation step, with the index it started from.
Navigated(handler, outcome) ==
  [handler |-> handler, ev |-> NoEdit.ev, outcome |-> outcome, from |-> currentPresIndex]

\* fetchPresentations up to its await: without a folder the list is
\* emptied at once, with a folder the request is sent.
fetchRequested ==
  /\ app = "viewer"
  /\ \/ /\ presentations' = <<>>
        /\ lastEdit' = Navigated("fetch", "no folder")
        /\ UNCHANGED requests
     \/ /\ requests < MaxRequests
        /\ requests' = requests + 1
        /\ lastEdit' = Navigated("fetch", "requested")
        /\ UNCHANGED presentations
  /\ exported' = NoExport
  /\ UNCHANGED <<app, appVars, currentPresIndex, pending, editorVars, call>>

\* fetchPresentations after its await: a non-empty answer installs the list
\* and resets the index, the two updates being applied in one render; an
\* empty answer and a failed request empty the list and leave the index.
fetchSettled ==
  /\ app = "viewer"
  /\ requests > 0
  /\ requests' = requests - 1
  /\ \/ \E list \in FolderLists :
          /\ presentations' = list
          /\ currentPresIndex' = LoadedIndex(currentPresIndex)
          /\ lastEdit' = Navigated("fetch", "loaded")
     \/ \E outcome \in {"empty", "failed"} :
          /\ presentations' = <<>>
          /\ lastEdit' = Navigated("fetch", outcome)
          /\ UNCHANGED currentPresIndex
  /\ exported' = NoExport
  /\ UNCHANGED <<app, appVars, pending, editorVars, call>>

\* The two navigation buttons: rendered when there is a current
\* presentation and more than one presentation, disabled at the ends.
previousPresentation ==
  /\ app = "viewer"
  /\ CurrentDefined
  /\ Len(presentations) > 1
  /\ currentPresIndex # 0
  /\ currentPresIndex' = IF currentPresIndex - 1 > 0 THEN currentPresIndex - 1 ELSE 0
  /\ lastEdit' = Navigated("previous", "updated")
  /\ exported' = NoExport
  /\ UNCHANGED <<app, appVars, presentations, pending, requests, editorVars, call>>

nextPresentation ==
  /\ app = "viewer"
  /\ CurrentDefined
  /\ Len(presentations) > 1
  /\ currentPresIndex # Len(presentations) - 1
  /\ currentPresIndex' = IF currentPresIndex + 1 < Len(presentations) - 1
                         THEN currentPresIndex + 1 ELSE Len(presentations) - 1
  /\ lastEdit' = Navigated("next", "updated")
  /\ exported' = NoExport
  /\ UNCHANGED <<app, appVars, presentations, pending, requests, editorVars, call>>

\* The button "Charger un autre dossier": setPresentations([]).
loadAnotherFolder ==
  /\ app = "viewer"
  /\ CurrentDefined
  /\ presentations' = <<>>
  /\ lastEdit' = Navigated("reset", "updated")
  /\ exported' = NoExport
  /\ UNCHANGED <<app, appVars, currentPresIndex, pending, requests, editorVars, call>>

InitNav ==
  /\ app = "viewer"
  /\ presentations = <<>>
  /\ currentPresIndex = 0
  /\ pending = <<>>
  /\ requests = 0
  /\ file = NoFile
  /\ slides = <<>>
  /\ selectedSlide = 0
  /\ objectURLs = {}
  /\ loadOutcome = "none"
  /\ lastEdit = NoEdit
  /\ exported = NoExport
  /\ call = NoCall
  /\ AppMounted

NextNav ==
  \/ fetchRequested
  \/ fetchSettled
  \/ previousPresentation
  \/ nextPresentation
  \/ loadAnotherFolder

SpecNav == InitNav /\ [][NextNav]_vars

\* ============================================================= claims

\* The Document an edit handler starts from: the slides of the editor, or
\* the slides the viewer derives from the presentation shown.
DocumentSlides ==
  IF app = "editor" THEN slides
  ELSE IF CurrentDefined THEN convertProjectDataToSlides(CurrentData)
  ELSE <<>>

\* The coordinates of the event name an existing cell of slideList.
CellResolves(slideList, ev) ==
  \E si \in 1..Len(slideList) :
    /\ ev.slideIndex = si - 1
    /\ \E ei \in 1..Len(slideList[si].structuredContent) :
         /\ ev.elementIndex = ei - 1
         /\ slideList[si].structuredContent[ei].type = "table"
         /\ \E ri \in 1..Len(slideList[si].structuredContent[ei].tableObject.rows) :
              /\ ev.rowIndex = ri - 1
              /\ \E ci \in 1..Len(slideList[si].structuredContent[ei].tableObject.rows[ri]) :
                   ev.cellIndex = ci - 1

\* The coordinates of the event name an existing slide (title), text item
\* (text) or cell (table) of slideList.
Resolves(slideList, ev) ==
  CASE ev.elementType = "title" ->
         \E si \in 1..Len(slideList) : ev.slideIndex = si - 1
    [] ev.elementType = "text" ->
         \E si \in 1..Len(slideList) :
           /\ ev.slideIndex = si - 1
           /\ \E ei \in 1..Len(slideList[si].structuredContent) :
                ev.elementIndex = ei - 1 /\ slideList[si].structuredContent[ei].type = "text"
    [] ev.elementType = "table" -> CellResolves(slideList, ev)
    [] OTHER -> FALSE

\* C2: a blur edit of the name cell of a data row from a project name A to
\* a text B that is no project name moves the entry: afterwards activities[B]
\* holds the information and alerts activities[A] held, and A is absent.
C2_RenameMovesEntry ==
  [][(/\ lastEdit'.handler = "blur"
      /\ lastEdit'.ev.elementType = "table"
      /\ CellResolves(DocumentSlides, lastEdit'.ev)
      /\ lastEdit'.ev.rowIndex >= 1
      /\ lastEdit'.ev.cellIndex = 0
      /\ ~HasKey(CurrentData.activities, lastEdit'.ev.content))
     => LET before == CurrentData.activities
            after == CurrentData'.activities
            A == before[lastEdit'.ev.rowIndex].name
            B == lastEdit'.ev.content
        IN /\ HasKey(after, B)
           /\ Lookup(after, B).information = Lookup(before, A).information
           /\ Lookup(after, B).alerts = Lookup(before, A).alerts
           /\ ~HasKey(after, A)]_vars

\* C4: a cell edit, by any of the three handlers, whose coordinates name no
\* existing cell leaves the Document unchanged: the slides of the editor and
\* the project_data of every presentation of the viewer (from which its
\* titles, texts and cells are derived) are the same after the handler.
C4_UnresolvedCellEditKeepsDocument ==
  [][(/\ lastEdit'.handler \in {"blur", "format", "editor"}
      /\ lastEdit'.ev.elementType = "table"
      /\ ~CellResolves(DocumentSlides, lastEdit'.ev))
     => (presentations' = presentations /\ slides' = slides)]_vars

\* C4 (witness): a handler has run on a cell event that names a row past the
\* last row of a table that is shown.
C4_Witness ==
  /\ lastEdit.handler = "blur"
  /\ lastEdit.ev.elementType = "table"
  /\ lastEdit.ev.slideIndex = 0 /\ lastEdit.ev.elementIndex = 1
  /\ lastEdit.ev.rowIndex = 3 /\ lastEdit.ev.cellIndex = 2
  /\ CurrentDefined
  /\ Len(CurrentData.activities) = 2
  /\ ~CellResolves(DocumentSlides, lastEdit.ev)

\* An outcome that tells the caller the edit failed: the OutOfRange failure
\* of the specification, or an exception leaving the handler.
FailureOutcomes == {"OutOfRange", "threw"}

\* C5: every title, text or cell edit of a Document that is shown whose
\* coordinates name no existing slide, item, row or cell ends in a failure
\* that is reported; none completes as a silent no-op.
C5_UnresolvedEditReportsFailure ==
  [][(/\ lastEdit'.handler \in {"blur", "editor"}
      /\ lastEdit'.ev.elementType \in {"title", "text", "table"}
      /\ DocumentSlides # <<>>
      /\ ~Resolves(DocumentSlides, lastEdit'.ev))
     => lastEdit'.outcome \in FailureOutcomes]_vars

\* The slide part a parsed slide was read from (one part per slide, in
\* order, for a package that is read).
PartOf(k) == CHOOSE part \in {file.parts[n] : n \in 1..Len(file.parts)} : part.num = slides[k].id

\* Every slide part of the archive can be read.
Readable == ~file.unreadable /\ ~file.corrupt /\ \A n \in 1..Len(file.parts) : ~file.parts[n].fails

Parsed == slides # <<>> /\ Readable /\ Len(file.parts) = Len(slides)

\* The <a:tbl> elements of a slide part, in document order.
SourceTablesOf(xml) == SelectSeq(xml.elements, LAMBDA el : el.kind = "tbl")

RowWidth(row) == SumSeq([c \in 1..Len(row) |-> row[c].colSpan])

\* C1: every row of every table produced by parsePptx covers exactly the
\* colsCount of its table: the colSpan of its cells sum to colsCount.
C1_GridRectangular ==
  \A k \in 1..Len(slides) : \A t \in 1..Len(slides[k].tables) :
    \A r \in 1..Len(slides[k].tables[t].rows) :
      RowWidth(slides[k].tables[t].rows[r]) = slides[k].tables[t].colsCount

\* A valid package: it can be read, every table has a grid and a row, and
\* every row has one <a:tc> cell per grid column, none of them merged.
ValidPackage ==
  /\ ~file.corrupt
  /\ \A k \in 1..Len(file.parts) :
       LET tbls == SourceTablesOf(file.parts[k].xml)
       IN \A t \in 1..Len(tbls) :
            /\ Len(tbls[t].grid) >= 1
            /\ Len(tbls[t].rows) >= 1
            /\ \A r \in 1..Len(tbls[t].rows) :
                 /\ Len(tbls[t].rows[r]) = Len(tbls[t].grid)
                 /\ \A c \in 1..Len(tbls[t].rows[r]) :
                      /\ tbls[t].rows[r][c].tag = "plain"
                      /\ tbls[t].rows[r][c].gridSpan = 0
                      /\ tbls[t].rows[r][c].rowSpan = 0

Geometry(cell) == [text |-> cell.text, rowSpan |-> cell.rowSpan, colSpan |-> cell.colSpan]

\* C6: exporting the slides parsed from a valid package succeeds and writes
\* one slide per parsed slide, in order, with the same title and with every
\* table keeping its rows, its cells and their rowSpan and colSpan.
C6_ExportOfParseRoundTrip ==
  (ValidPackage /\ Parsed /\ exported.status # "none")
  => /\ exported.status = "written"
     /\ Len(exported.slides) = Len(slides)
     /\ \A k \in 1..Len(slides) :
          /\ exported.slides[k].title = slides[k].title
          /\ Len(exported.slides[k].tables) = Len(slides[k].tables)
          /\ \A t \in 1..Len(slides[k].tables) :
               exported.slides[k].tables[t] =
                 [r \in 1..Len(slides[k].tables[t].rows) |->
                    [c \in 1..Len(slides[k].tables[t].rows[r]) |->
                       Geometry(slides[k].tables[t].rows[r][c])]]

\* The shapes of a slide part carrying the given placeholder, in order.
Placeholders(xml, ph) == SelectSeq(xml.elements, LAMBDA el : el.kind = "sp" /\ el.ph = ph)

\* Every text run of the slide part, in document order.
AllRuns(xml) == Flatten([k \in 1..Len(xml.elements) |-> ElementRuns(xml.elements[k])])

FirstSuch(texts, Test(_)) ==
  LET ok == {n \in 1..Len(texts) : Test(texts[n])}
  IN IF ok = {} THEN <<>> ELSE texts[CHOOSE n \in ok : \A m \in ok : n <= m]

\* The text of a placeholder under a reading: its first run ("first") or
\* all its runs joined ("joined"); <<>> when the placeholder is absent.
PlaceholderText(xml, ph, reading) ==
  LET shapes == Placeholders(xml, ph)
  IN IF shapes = <<>> \/ shapes[1].runs = <<>> THEN <<>>
     ELSE IF reading = "first" THEN shapes[1].runs[1]
     ELSE Flatten(shapes[1].runs)

\* The title the precedence rule gives, under a reading of "the text of the
\* placeholder" and of "non-empty" (blank texts counted as empty or not).
TitleByPrecedence(xml, n, reading, blankIsEmpty) ==
  LET NonEmpty(text) == text # <<>> /\ (blankIsEmpty => ~IsBlank(text))
      candidates == <<xml.name,
                      PlaceholderText(xml, "title", reading),
                      PlaceholderText(xml, "idx0", reading),
                      FirstSuch(AllRuns(xml), NonEmpty)>>
      title == FirstSuch(candidates, NonEmpty)
  IN IF title = <<>> THEN SlideNumberText(n) ELSE title

\* C9: the title of a parsed slide is the first non-empty of: the name of
\* the slide container, the text of the title placeholder, the text of the
\* placeholder at index 0, the first non-empty text run of the slide, and
\* otherwise "Slide n" (under at least one reading of the rule).
C9_TitlePrecedence ==
  Parsed =>
    \A k \in 1..Len(slides) :
      \E reading \in {"first", "joined"}, blankIsEmpty \in BOOLEAN :
        slides[k].title = TitleByPrecedence(PartOf(k).xml, PartOf(k).num, reading, blankIsEmpty)

\* The parsed form of a declared cell: its decoded text, its spans (1 when
\* not written) and its style.
DeclaredCell(cell) ==
  [text |-> DecodeEntities(cell.text),
   rowSpan |-> IF cell.rowSpan # 0 THEN cell.rowSpan ELSE 1,
   colSpan |-> IF cell.gridSpan # 0 THEN cell.gridSpan ELSE 1,
   style |-> CellStyle(cell)]

PaddingCell == [text |-> <<>>, rowSpan |-> 1, colSpan |-> 1, style |-> NoStyle]

WithoutColIndex(cell) ==
  [text |-> cell.text, rowSpan |-> cell.rowSpan, colSpan |-> cell.colSpan, style |-> cell.style]

\* The row the padding rule gives for a source row in a table of colsCount
\* columns: every declared cell, then padding up to colsCount.
PaddedRow(row, colsCount) ==
  LET declared == [c \in 1..Len(row) |-> DeclaredCell(row[c])]
      covered == SumSeq([c \in 1..Len(row) |-> declared[c].colSpan])
  IN declared \o [k \in 1..(colsCount - covered) |-> PaddingCell]

\* The columns the declared cells of a source row cover.
DeclaredWidth(row) == SumSeq([c \in 1..Len(row) |-> DeclaredCell(row[c]).colSpan])

\* C10: in a table with a grid, a source row whose declared cells fit in
\* colsCount columns is returned as its declared cells, in order and
\* unchanged, followed by as many empty, span-1, style-less cells as it
\* needs to reach colsCount; a row that covers colsCount gets none.
C10_PaddingAfterDeclaredCells ==
  Parsed =>
    \A k \in 1..Len(slides) :
      LET tbls == SourceTablesOf(PartOf(k).xml)
      IN \A t \in 1..Len(slides[k].tables) :
           \A r \in 1..Len(slides[k].tables[t].rows) :
             (/\ tbls[t].grid # <<>>
              /\ DeclaredWidth(tbls[t].rows[r]) <= slides[k].tables[t].colsCount)
             => [c \in 1..Len(slides[k].tables[t].rows[r]) |->
                   WithoutColIndex(slides[k].tables[t].rows[r][c])]
                = PaddedRow(tbls[t].rows[r], slides[k].tables[t].colsCount)

\* The phrases of an AlertSet are told apart: no phrase is listed twice and
\* none occurs inside another.
SeparatePhrases(alerts) ==
  /\ Cardinality(AlertPhrases(alerts)) =
       Len(alerts.advancements) + Len(alerts.small_alerts) + Len(alerts.critical_alerts)
  /\ \A p, q \in AlertPhrases(alerts) : p # q => IndexOf(p, q) = 0

\* C3: for an AlertSet A of separate phrases and a plain text T that
\* contains every phrase of A verbatim, classifying the text obtained by
\* injecting A's markup into T gives A again: the same phrases in the same
\* tiers in the same order.
C3_ClassifyInjectedIsIdentity ==
  (call.fn = "classifyInjected" /\ SeparatePhrases(call.arg.alerts))
  => call.result = call.arg.alerts

\* C7: converting a project_data payload that has projects to slides and
\* reducing the slides back with updateProjectData gives the payload again:
\* the same projects in the same order with the same information and
\* alerts, the same upcoming_events (an absent one read as the empty text)
\* and the same metadata.title.
C7_TableRoundTrip ==
  (call.fn = "roundTrip" /\ call.arg.data.activities # <<>>) =>
    [call.result EXCEPT !.upcoming_events = OrEmpty(@)] = call.arg.data

\* The close tag that ends the span opened at position i of a serialised
\* text: the first later position at which the nesting is back to the depth
\* before i.
CloseOf(text, i) ==
  CHOOSE j \in (i + 1)..Len(text) :
    /\ Depth(text, j) = Depth(text, i - 1)
    /\ \A m \in i..(j - 1) : Depth(text, m) > Depth(text, i - 1)

\* The contents of the spans opened with the given tag, in document order,
\* each span once; a content is the markup inside the span ("html") or the
\* visible text inside it ("text").
RECURSIVE SpansOf(_, _, _, _)
SpansOf(text, i, open, reading) ==
  IF i > Len(text) THEN <<>>
  ELSE IF text[i] # open THEN SpansOf(text, i + 1, open, reading)
  ELSE LET inner == SubSeq(text, i + 1, CloseOf(text, i) - 1)
       IN <<IF reading = "html" THEN inner ELSE TextOnly(inner)>>
          \o SpansOf(text, i + 1, open, reading)

\* C8: extractAlertsFromHtml lists the content of every green span under
\* advancements, of every orange span under small_alerts and of every red
\* span under critical_alerts, each span once, and nothing else (under at
\* least one reading of "the content of a span").
C8_ClassifiesByColourTag ==
  call.fn = "extractAlertsFromHtml" =>
    \E reading \in {"html", "text"} :
      /\ call.result.advancements = SpansOf(call.arg.html, 1, GreenTag, reading)
      /\ call.result.small_alerts = SpansOf(call.arg.html, 1, OrangeTag, reading)
      /\ call.result.critical_alerts = SpansOf(call.arg.html, 1, RedTag, reading)

\* ------------------------------------------------------------ loading

\* The slide parts of the archive and their numeric suffixes.
FileParts == {file.parts[n] : n \in 1..Len(file.parts)}

PartNumbers == {file.parts[n].num : n \in 1..Len(file.parts)}

\* The slide part that is k-th by numeric suffix.
PartAt(k) == CHOOSE part \in FileParts : Cardinality({q \in FileParts : q.num < part.num}) = k - 1

C12_FailingSlideIsContained ==
  (/\ ~file.unreadable /\ ~file.corrupt
   /\ loadOutcome = "installed"
   /\ Len(file.parts) >= 2
   /\ \E part \in FileParts : part.fails) =>
    /\ Len(slides) = Len(file.parts)
    /\ \A k \in 1..Len(slides) :
         IF PartAt(k).fails
         THEN \A i \in 1..Len(slides[k].structuredContent) :
                slides[k].structuredContent[i].type = "text"
         ELSE /\ slides[k].id = PartAt(k).num
              /\ slides[k].title = ResolveTitle(PartAt(k).xml, PartAt(k).num)

\* C13: after a load of bytes that are no zip archive, the load has ended
\* in a reported failure and no slide list is installed.
C13_CorruptPackageAbortsLoad ==
  (file.corrupt /\ loadOutcome # "none") => (loadOutcome = "alerted" /\ slides = <<>>)

\* C18: every object URL that is live belongs to an image of the slide list
\* now installed.
C18_LiveURLsBelongToDocument == objectURLs \subseteq SlideURLs(slides)

\* ------------------------------------------------ viewer: cell edits

\* The project shown on a data row of the table: rows follow the order of
\* activities, row 1 showing the first project.
ProjectOfRow(projectData, rowIndex) == projectData.activities[rowIndex].name

\* An edit handler of the viewer has just run on an existing cell.
ViewerCellEdited ==
  /\ lastEdit'.handler \in {"blur", "format"}
  /\ lastEdit'.ev.elementType = "table"
  /\ CurrentDefined
  /\ CellResolves(DocumentSlides, lastEdit'.ev)

\* C14: after an edit of the column-1 cell of the data row of project p,
\* by the blur handler or by the formatting update, activities[p] holds the
\* new content as information and the classification of the new content as
\* alerts.
C14_InformationEditReclassifies ==
  [][(ViewerCellEdited /\ lastEdit'.ev.rowIndex >= 1 /\ lastEdit'.ev.cellIndex = 1)
     => LET p == ProjectOfRow(CurrentData, lastEdit'.ev.rowIndex)
            after == CurrentData'.activities
        IN /\ HasKey(after, p)
           /\ Lookup(after, p).information = lastEdit'.ev.content
           /\ Lookup(after, p).alerts = extractAlertsFromHtml(lastEdit'.ev.content)]_vars

\* C15: an edit of a cell of the header row, in any column, by the blur
\* handler or by the formatting update, leaves project_data as it was:
\* activities, upcoming_events and metadata.
C15_HeaderEditKeepsProjectData ==
  [][(ViewerCellEdited /\ lastEdit'.ev.rowIndex = 0) => CurrentData' = CurrentData]_vars

\* --------------------------------------------------- viewer: title edits

\* An edit handler of the viewer has just run on the title element of a
\* slide index, with a presentation shown.
TitleEdited ==
  /\ lastEdit'.handler \in {"blur", "format"}
  /\ lastEdit'.ev.elementType = "title"
  /\ ~IsNaN(lastEdit'.ev.slideIndex)
  /\ CurrentDefined

\* What a title edit does to project_data: metadata.title becomes the new
\* text on slide 0 and stays otherwise; activities and upcoming_events stay.
TitleMirrored ==
  /\ CurrentData'.metadata.title =
       (IF lastEdit'.ev.slideIndex = 0 THEN lastEdit'.ev.content ELSE CurrentData.metadata.title)
  /\ CurrentData'.activities = CurrentData.activities
  /\ CurrentData'.upcoming_events = CurrentData.upcoming_events

\* The title of slide s in the Document after the step.
TitleAfter(s) == At(DocumentSlides', s).title

\* C16 as stated: a title edit on slide s makes the new text the title of
\* slide s, mirrors it into metadata.title when s = 0 and leaves
\* metadata.title otherwise, and leaves activities and upcoming_events.
C16_TitleEditAsStated ==
  [][TitleEdited =>
       /\ TitleMirrored
       /\ Defined(DocumentSlides, lastEdit'.ev.slideIndex)
            => TitleAfter(lastEdit'.ev.slideIndex) = lastEdit'.ev.content]_vars

\* C16 amended: as stated, except that after an edit to the empty text the
\* title of the slide is the default title.
C16_TitleEdit ==
  [][TitleEdited =>
       /\ TitleMirrored
       /\ Defined(DocumentSlides, lastEdit'.ev.slideIndex)
            => TitleAfter(lastEdit'.ev.slideIndex) =
                 (IF lastEdit'.ev.content = <<>> THEN DefaultTitle ELSE lastEdit'.ev.content)]_vars

\* A blur edit of the title of slide 0 to the text C has run on a
\* presentation titled T with two projects, and the title is now C.
C16_Witness ==
  /\ lastEdit.handler = "blur"
  /\ lastEdit.ev.elementType = "title"
  /\ lastEdit.ev.slideIndex = 0
  /\ lastEdit.ev.content = BlurContent
  /\ CurrentDefined
  /\ CurrentData.metadata.title = BlurContent
  /\ DocumentSlides[1].title = BlurContent
  /\ Len(CurrentData.activities) = 2

\* ------------------------------------------------ viewer: deferred update

\* The oldest timer was set by a formatting action on the information cell
\* of the data row of a project.
InformationFormatPending ==
  /\ pending # <<>>
  /\ Head(pending).ev.elementType = "table"
  /\ Head(pending).ev.cellIndex = 1
  /\ Head(pending).ev.rowIndex >= 1
  /\ Head(pending).ev.rowIndex <= Len(CurrentData.activities)

\* C17: an export that runs after a formatting action on an information
\* cell reads a project_data in which the information of the project is
\* the formatted content and its alerts the classification of that content.
C17_ExportAfterFormatSeesUpdate ==
  (exported.status = "written" /\ InformationFormatPending) =>
    LET entry == CurrentData.activities[Head(pending).ev.rowIndex]
    IN /\ entry.information = Head(pending).ev.content
       /\ entry.alerts = extractAlertsFromHtml(Head(pending).ev.content)

\* ------------------------------------------------------ extracted text

\* The five entities and the character each stands for.
Entities ==
  {[name |-> <<"&", "l", "t", ";">>, char |-> "<"],
   [name |-> <<"&", "g", "t", ";">>, char |-> ">"],
   [name |-> <<"&", "a", "m", "p", ";">>, char |-> "&"],
   [name |-> <<"&", "q", "u", "o", "t", ";">>, char |-> "\""],
   [name |-> <<"&", "a", "p", "o", "s", ";">>, char |-> "'"]}

\* A text with every entity of it replaced by its character, in one pass
\* from left to right: no output character is read again.
RECURSIVE Unescape(_)
Unescape(text) ==
  IF text = <<>> THEN <<>>
  ELSE LET here == {e \in Entities : Len(e.name) <= Len(text)
                                      /\ SubSeq(text, 1, Len(e.name)) = e.name}
       IN IF here = {} THEN <<Head(text)>> \o Unescape(Tail(text))
          ELSE LET e == CHOOSE x \in here : TRUE
               IN <<e.char>> \o Unescape(SubSeq(text, Len(e.name) + 1, Len(text)))

\* The text items of a slide.
TextItemsOf(slide) == SelectSeq(slide.structuredContent, LAMBDA item : item.type = "text")

\* The shapes of a slide part.
ShapesOf(xml) == SelectSeq(xml.elements, LAMBDA el : el.kind = "sp")

\* Every cell of the table is written <a:tc>.
AllPlain(tbl) ==
  \A r \in 1..Len(tbl.rows) : \A c \in 1..Len(tbl.rows[r]) : tbl.rows[r][c].tag = "plain"

\* C19: in a parsed slide the title is the unescaped text of its source,
\* every text of the slide and every text item is the unescaped text of
\* its runs, and every cell text is the unescaped text of its cell; each
\* text is unescaped once.
C19_EntitiesDecodedOnce ==
  Parsed =>
    \A k \in 1..Len(slides) :
      LET xml == PartOf(k).xml
          tbls == SourceTablesOf(xml)
      IN /\ slides[k].title = Unescape(ResolveTitle(xml, PartOf(k).num))
         /\ slides[k].texts = [n \in 1..Len(AllRuns(xml)) |-> Unescape(AllRuns(xml)[n])]
         /\ \A i \in 1..Len(TextItemsOf(slides[k])) :
              \E n \in 1..Len(ShapesOf(xml)) :
                TextItemsOf(slides[k])[i].content =
                  Join([m \in 1..Len(ShapesOf(xml)[n].runs) |-> Unescape(ShapesOf(xml)[n].runs[m])],
                       <<LineBreak>>)
         /\ \A t \in 1..Len(tbls) :
              AllPlain(tbls[t]) =>
                \A r \in 1..Len(tbls[t].rows) : \A c \in 1..Len(tbls[t].rows[r]) :
                  slides[k].tables[t].rows[r][c].text = Unescape(tbls[t].rows[r][c].text)

\* The text of a shape: its runs, one per line.
ShapeText(shape) == Join(shape.runs, <<LineBreak>>)

\* No text of the slide part is written with an entity.
EntityFree(xml) ==
  \A n \in 1..Len(AllRuns(xml)) : \A i \in 1..Len(AllRuns(xml)[n]) : AllRuns(xml)[n][i] # "&"

\* The shape is the title shape: a placeholder of type title or of index
\* 0, or a shape whose text is the title.
IsTitleShape(shape, title) == shape.ph \in {"title", "idx0"} \/ ShapeText(shape) = title

\* The text items body extraction owes for the shapes from the k-th on:
\* none for a title shape or a shape without text, one for any other.
RECURSIVE BodyItems(_, _, _)
BodyItems(shapes, k, title) ==
  IF k > Len(shapes) THEN <<>>
  ELSE IF IsTitleShape(shapes[k], title) \/ shapes[k].runs = <<>> \/ IsBlank(ShapeText(shapes[k]))
  THEN BodyItems(shapes, k + 1, title)
  ELSE <<[type |-> "text", content |-> ShapeText(shapes[k])]>> \o BodyItems(shapes, k + 1, title)

\* C20: the text items of a parsed slide are those of its shapes that are
\* not the title shape, so none of them is the title.
C20_TitleShapeSkipped ==
  Parsed =>
    \A k \in 1..Len(slides) :
      EntityFree(PartOf(k).xml) =>
        /\ TextItemsOf(slides[k]) = BodyItems(ShapesOf(PartOf(k).xml), 1, slides[k].title)
        /\ \A i \in 1..Len(TextItemsOf(slides[k])) :
             TextItemsOf(slides[k])[i].content # slides[k].title

\* ---------------------------------------------------- markup injection

TierTag(tier) ==
  IF tier = "advancements" THEN GreenTag
  ELSE IF tier = "small_alerts" THEN OrangeTag
  ELSE RedTag

\* The span opened at position i of a marked-up text wraps the first literal
\* occurrence of the phrase in the plain text: its visible content is the
\* phrase and the visible text before it is the text before that occurrence.
WrapsFirstOccurrence(html, i, text, phrase) ==
  /\ IndexOf(text, phrase) > 0
  /\ TextOnly(SubSeq(html, i + 1, CloseOf(html, i) - 1)) = phrase
  /\ Len(TextOnly(SubSeq(html, 1, i - 1))) = IndexOf(text, phrase) - 1

\* C21: the injection wraps, for each phrase of each tier that occurs
\* verbatim in the plain text, the first occurrence of the phrase in the
\* tier's markup; it wraps nothing else, no span lies inside another span,
\* and the text without the markup is the plain text.
C21_InjectionWrapsFirstOccurrences ==
  call.fn = "injectMarkup" =>
    LET html == call.result
        text == call.arg.text
        alerts == call.arg.alerts
    IN /\ TextOnly(html) = text
       /\ \A n \in 1..Len(html) : Depth(html, n) \in {0, 1}
       /\ \A tier \in Tiers : \A k \in 1..Len(alerts[tier]) :
            IndexOf(text, alerts[tier][k]) > 0 =>
              \E i \in 1..Len(html) :
                /\ html[i] = TierTag(tier)
                /\ WrapsFirstOccurrence(html, i, text, alerts[tier][k])
       /\ \A i \in 1..Len(html) : \A tier \in Tiers :
            html[i] = TierTag(tier) =>
              \E k \in 1..Len(alerts[tier]) :
                WrapsFirstOccurrence(html, i, text, alerts[tier][k])

\* ---------------------------------------------------- tables without rows

TableItemsOf(slide) == SelectSeq(slide.structuredContent, LAMBDA item : item.type = "table")

\* The <a:tbl> elements of a slide that have at least one <a:tr>.
TablesWithRows(xml) == SelectSeq(SourceTablesOf(xml), LAMBDA tbl : Len(tbl.rows) > 0)

\* C22: a table element without rows gives no table and no table item;
\* every table and every table item of a parsed slide has at least one row,
\* and there is one of each per table element that has rows.
C22_TablesWithoutRowsOmitted ==
  Parsed =>
    \A k \in 1..Len(slides) :
      /\ Len(slides[k].tables) = Len(TablesWithRows(PartOf(k).xml))
      /\ Len(TableItemsOf(slides[k])) = Len(TablesWithRows(PartOf(k).xml))
      /\ \A t \in 1..Len(slides[k].tables) : Len(slides[k].tables[t].rows) >= 1
      /\ \A t \in 1..Len(TableItemsOf(slides[k])) :
           Len(TableItemsOf(slides[k])[t].tableObject.rows) >= 1

\* ------------------------------------------------- blur after formatting

\* The information of the project at a table row holds markup, and its
\* alerts are the classification of that markup: the state a formatting
\* edit on the cell leaves.
FormatApplied(rowIndex) ==
  /\ CurrentDefined
  /\ Len(CurrentData.activities) >= rowIndex
  /\ LET project == CurrentData.activities[rowIndex]
     IN /\ TextOnly(project.information) # project.information
        /\ project.alerts = extractAlertsFromHtml(project.information)

\* A blur on the information cell of a table row with the text it shows.
BlurUnchanged(rowIndex) ==
  /\ lastEdit'.handler = "blur"
  /\ lastEdit'.ev = EditEvent(0, "table", 1, rowIndex, 1, VisibleText(rowIndex, 1))

\* C23: a blur on a formatted information cell whose visible text is
\* unchanged leaves the information and the alerts of the project as
\* they are.
C23_BlurKeepsAnnotations ==
  [][\A rowIndex \in 1..MaxIndex :
       (FormatApplied(rowIndex) /\ BlurUnchanged(rowIndex)) =>
         CurrentData'.activities[rowIndex] = CurrentData.activities[rowIndex]]_vars

\* ------------------------------------------------- deferred apply

\* The step in which the oldest timer fires.
TimerFires == pending # <<>> /\ pending' = Tail(pending) /\ lastEdit'.handler = "format"

\* C24: when a timer fires, the project_data it leaves is the project_data
\* of the state it fires in, every edit committed since the formatting
\* action included, with the formatting edit applied to it.
C24_DeferredApplyKeepsEdits ==
  [][(TimerFires /\ lastEdit'.outcome = "updated") =>
       CurrentData' = FormatEdit(CurrentData, Head(pending).ev).data]_vars

\* ------------------------------------------------- order of the rows

\* The rows of the table convertProjectDataToSlides generates.
RegeneratedRows(projectData) ==
  At(At(convertProjectDataToSlides(projectData), 0).structuredContent, 1).tableObject.rows

\* A blur edit on the name cell of an existing project row.
NameCellEdited ==
  /\ lastEdit'.handler = "blur"
  /\ lastEdit'.outcome = "updated"
  /\ lastEdit'.ev.elementType = "table"
  /\ lastEdit'.ev.rowIndex >= 1
  /\ lastEdit'.ev.cellIndex = 0
  /\ CellResolves(DocumentSlides, lastEdit'.ev)

\* C25: after an edit of a name cell the regenerated table has the same
\* number of rows, every other row is the row it was, and the edited row
\* still shows the information of the same project.
C25_RenameKeepsRowOrder ==
  [][NameCellEdited =>
       LET before == RegeneratedRows(CurrentData)
           after == RegeneratedRows(CurrentData')
           edited == lastEdit'.ev.rowIndex + 1
       IN /\ Len(after) = Len(before)
          /\ \A r \in 2..Len(before) :
               IF r = edited THEN after[r][2] = before[r][2]
               ELSE after[r][1] = before[r][1] /\ after[r][2] = before[r][2]]_vars

\* ------------------------------------------------- rendered cells

\* The rows of the table object a table event addresses.
RowsAt(slideList, ev) ==
  At(At(slideList, ev.slideIndex).structuredContent, ev.elementIndex).tableObject.rows

\* The place in its row of the rendered cell an event comes from: the cell
\* whose colIndex the event carries.
RenderedAt(row, ev) == CHOOSE c \in 1..Len(row) : row[c].colIndex = ev.cellIndex

\* C26: a blur edit on a cell of the editor's preview sets the text of that
\* cell of tableObject.rows and leaves the text of every other cell.
C26_RenderedCellEditHitsItsCell ==
  [][(lastEdit'.handler = "editor" /\ lastEdit'.ev.elementType = "table") =>
       LET ev == lastEdit'.ev
           before == RowsAt(slides, ev)
           after == RowsAt(slides', ev)
           edited == RenderedAt(before[ev.rowIndex + 1], ev)
       IN \A r \in 1..Len(before) : \A c \in 1..Len(before[r]) :
            after[r][c].text = IF r = ev.rowIndex + 1 /\ c = edited THEN ev.content
                               ELSE before[r][c].text]_vars

\* ------------------------------------------------- slide ids

\* C29: the slides of the editor's list have pairwise distinct ids.
C29_SlideIdsDistinct ==
  app = "editor" =>
    \A i \in 1..Len(slides) : \A j \in 1..Len(slides) :
      i # j => slides[i].id # slides[j].id

\* ------------------------------------------------- open presentations

\* C27: openPresentations never holds two entries with the same id.
C27_OpenPresentationsDistinct ==
  \A i \in 1..Len(openPresentations) : \A j \in 1..Len(openPresentations) :
    i # j => openPresentations[i].id # openPresentations[j].id

\* C28: activePresentation is null exactly when openPresentations is empty,
\* and otherwise it is the id of an open presentation.
C28_ActiveIsOpen ==
  IF openPresentations = <<>> THEN activePresentation = Null
  ELSE IsOpen(openPresentations, activePresentation)

\* ------------------------------------------------------- navigation

====
